---- MODULE Spec2Model ----
(***************************************************************************)
(* Trade execution and event pipeline of the Nadfun SDK: the historical    *)
(* Indexer (curve, DEX), the live Stream (curve, DEX), Trade, SniperBot    *)
(* and BundlerBot, each as a state machine translated from its source.     *)
(* Each component has its own specification (SpecIndexer, SpecStream, ...) *)
(* over the one set of variables; the variables of the other components    *)
(* stay at their initial values.                                           *)
(***************************************************************************)
EXTENDS Integers, Sequences, FiniteSets, TLC

(***************************************************************************)
(* Bounds of the model.                                                    *)
(***************************************************************************)
MaxBlock == 4
MaxBatch == 3

(***************************************************************************)
(* Program constants.                                                      *)
(***************************************************************************)
DefaultBatchSize == 2000

(***************************************************************************)
(* Addresses.  An address is a string; ToLower is String.toLowerCase on    *)
(* the addresses the model uses (mixed-case checksummed and lower-case).   *)
(***************************************************************************)
CURVE == "0xCURVE"
TokA == "0xAbC1"
TokB == "0xDeF2"
Pool1 == "0xP001"
Pool2 == "0xP002"

ToLower(s) ==
  CASE s = "0xAbC1" -> "0xabc1"
    [] s = "0xABC1" -> "0xabc1"
    [] s = "0xDeF2" -> "0xdef2"
    [] s = "0xDEF2" -> "0xdef2"
    [] s = "0xCURVE" -> "0xcurve"
    [] s = "0xP001" -> "0xp001"
    [] s = "0xP002" -> "0xp002"
    [] s = "0xC0dE" -> "0xc0de"
    [] s = "0xC0DE" -> "0xc0de"
    [] OTHER -> s

(***************************************************************************)
(* enum CurveEventType: the string each member stands for.                 *)
(***************************************************************************)
CurveEventType ==
  [Create |-> "CurveCreate", Buy |-> "CurveBuy", Sell |-> "CurveSell",
   Sync |-> "CurveSync", Lock |-> "CurveTokenLocked", Listed |-> "CurveTokenListed"]

AllCurveEventTypes ==
  {CurveEventType.Create, CurveEventType.Buy, CurveEventType.Sell,
   CurveEventType.Sync, CurveEventType.Lock, CurveEventType.Listed}

\* CURVE_EVENT_ABIS: the event names parseEventLogs recognises.
CURVE_EVENT_ABIS ==
  {"CurveCreate", "CurveBuy", "CurveSell", "CurveSync", "CurveTokenLocked",
   "CurveTokenListed"}

\* SWAP_EVENT_ABI
SWAP_EVENT_ABI == {"Swap"}

(***************************************************************************)
(* Raw logs.  A log carries the emitting address, the on-chain event name  *)
(* (topic), its place in the chain and the indexed token argument.         *)
(* LogUniverse is what the chain may hold (the bonding curve's logs and the *)
(* pools' logs); within a block logIndex is unique and transactionIndex    *)
(* does not decrease with it.                                              *)
(***************************************************************************)
Log(a, n, b, t, l, tok) ==
  [address |-> a, topic |-> n, blockNumber |-> b, transactionIndex |-> t,
   logIndex |-> l, token |-> tok]

LogCreate == Log(CURVE, "CurveCreate", 1, 0, 0, TokA)
LogBuy == Log(CURVE, "CurveBuy", 1, 1, 1, TokA)
LogListed == Log(CURVE, "CurveTokenListed", 2, 0, 0, TokB)
LogTransfer == Log(CURVE, "Transfer", 3, 0, 0, TokA)
LogSell == Log(CURVE, "CurveSell", 4, 2, 1, TokB)
LogSwap1 == Log(Pool1, "Swap", 2, 1, 1, TokB)
LogSwap2 == Log(Pool2, "Swap", 2, 1, 2, TokA)
LogSwap3 == Log(Pool1, "Swap", 4, 0, 0, TokB)
NoLog == Log("", "", 0, 0, 0, "")

CurveLogs == {LogCreate, LogBuy, LogListed, LogTransfer, LogSell}

PoolLogs == {LogSwap1, LogSwap2, LogSwap3}

LogUniverse == CurveLogs \cup PoolLogs

VARIABLES
  \* the chain (RPC collaborator)
  chain,        \* the logs of blocks 1..MaxBlock
  head,         \* getBlockNumber(): the current chain head
  \* Indexer.fetchAllEvents
  idxKind,      \* "curve" | "dex": which Indexer class
  idxPools,     \* DEX Indexer.poolAddresses
  faPc,         \* "idle" | "head" | "fetch" | "done" | "failed"
  faStart,      \* startBlock
  faBatch,      \* batchSize
  faTypes,      \* eventTypes?: [given, list]
  faTokens,     \* tokenFilter?: [given, list]
  faCurrent,    \* currentBlock
  faTarget,     \* targetBlock
  faAll,        \* allEvents
  faQueries,    \* the <<fromBlock, toBlock>> of every fetchEvents call, in order
  faResult,     \* the returned array
  faRejected,   \* a getBlockNumber or fetchEvents call of this fetchAllEvents rejected
  \* Stream (curve and DEX)
  strKind,            \* "curve" | "dex": which Stream class
  eventTypes,         \* curve Stream.eventTypes
  tokenFilter,        \* curve Stream.tokenFilter: [given, list]
  listeners,          \* Stream.listeners: the Map's entries, in insertion order
  isRunning,          \* Stream.isRunning
  watchFn,            \* curve Stream.watchFn: a subscription id, 0 for null
  watchFunctions,     \* DEX Stream.watchFunctions: subscription ids
  poolAddresses,      \* DEX Stream.poolAddresses
  reconnectAttempts,  \* Stream.reconnectAttempts
  subs,               \* the transport's live subscriptions: [id, address]
  tasks,              \* processLogs invocations awaiting getBlock: [logs, i, pool]
  batches,            \* the number of log batches delivered so far
  last,               \* the log the step just taken processed: what was decided, who was called
  \* the lens contract
  listed,       \* the tokens whose liquidity has moved to the DEX
  \* Trade.buy / sell / sellPermit
  trCall,       \* the call in progress: [method, router, token, amountIn, amountOutMin]
  trPc,         \* "idle" | "send" | "receipt" | "returned" | "threw"
  trSent,       \* the transactions the call has submitted
  trReceipt,    \* the status of the receipt obtained: "none" | "success" | "reverted"
  trReturn,     \* the hash returned (the transaction's place in trSent), 0 for none
  \* BundlerBot.execute
  bConfig,      \* BundlerBot.config
  bOps,         \* operations
  bI,           \* the loop index, from 1
  bPc,          \* "idle" | the call being awaited | "confirm" | "done"
  bLoc,         \* the locals of the operation in progress
  bResults,     \* results
  bCalls,       \* the chain calls issued so far: [i, name, router, quoteRouter,
                \* amountOutMin, sent, mined, value]; sent and mined tell, of a call
                \* that writes, whether it submitted a transaction and obtained its
                \* receipt; value is what the call returned, -1 until it has
  \* SniperBot
  snConfig,         \* SniperBot.config
  clock,            \* ticks of Date.now()
  lastBuyTime,      \* SniperBot.lastBuyTime
  stats,            \* SniperBot.stats
  handlers,         \* the handleCreateEvent invocations suspended at an await
  snRunning,        \* SniperBot.isRunning
  snStarting,       \* the start() calls suspended at `await this.stream.start()`
  snListeners,      \* the listeners the bot has on its stream
  snStreamRunning,  \* the bot's stream's isRunning
  snBuys,           \* Date.now() at the start of each buy attempt
  snTrade,          \* the trade last handed to Trade.buy
  snEvents,         \* the Create events dispatched so far: [time, token]
  snStarts,         \* the number of start() calls that went past the isRunning check
  errorCallbacks,   \* SniperBot.errorCallbacks: whether each callback "returns" or "throws"
  snNotified,       \* the error callbacks the last failed buy called, and whether
                    \* one's exception left executeBuy
  \* a call of one of the library's functions
  libCall,          \* the function called and its arguments
  libAwait,         \* the request the call is suspended on, with the call's locals
  libResult,        \* how the call ended: what it returned or threw
  \* the token contract's permit (EIP-2612)
  nonces,           \* the wallet's permit nonce at each token
  permits,          \* the permit signatures made so far
  permitTxs         \* the sellPermit transactions mined so far

chainVars == <<chain, head>>
idxVars == <<idxKind, idxPools, faPc, faStart, faBatch, faTypes, faTokens,
             faCurrent, faTarget, faAll, faQueries, faResult, faRejected>>
strVars == <<strKind, eventTypes, tokenFilter, listeners, isRunning, watchFn,
             watchFunctions, poolAddresses, reconnectAttempts, subs, tasks,
             batches, last>>
lensVars == <<listed>>
tradeVars == <<trCall, trPc, trSent, trReceipt, trReturn>>
bundlerVars == <<bConfig, bOps, bI, bPc, bLoc, bResults, bCalls>>
sniperVars == <<snConfig, clock, lastBuyTime, stats, handlers, snRunning, snStarting,
                snListeners, snStreamRunning, snBuys, snTrade, snEvents, snStarts,
                errorCallbacks, snNotified>>
libVars == <<libCall, libAwait, libResult, nonces, permits, permitTxs>>
vars == <<chainVars, idxVars, strVars, lensVars, tradeVars, bundlerVars, sniperVars,
          libVars>>

\* The variables each component leaves alone.
exceptIdx == <<strVars, lensVars, tradeVars, bundlerVars, sniperVars,
  libVars>>
exceptStr == <<chainVars, idxVars, lensVars, tradeVars, bundlerVars, sniperVars,
  libVars>>
exceptLens == <<chainVars, idxVars, strVars, tradeVars, bundlerVars, sniperVars,
  libVars>>
exceptTrade == <<chainVars, idxVars, strVars, lensVars, bundlerVars, sniperVars,
  libVars>>
exceptBundler == <<chainVars, idxVars, strVars, tradeVars, sniperVars,
  libVars>>
exceptSniper == <<chainVars, idxVars, strVars, tradeVars, bundlerVars,
  libVars>>
exceptLib == <<chainVars, idxVars, strVars, lensVars, tradeVars, bundlerVars,
               sniperVars>>

(***************************************************************************)
(* Sequences helpers.                                                      *)
(***************************************************************************)
Range(s) == {s[i] : i \in DOMAIN s}

Min(a, b) == IF a <= b THEN a ELSE b

(***************************************************************************)
(* getLogs: the logs of the given addresses in blocks fromBlock..toBlock,  *)
(* in chain order (block, then log index).                                 *)
(***************************************************************************)
ChainBefore(a, b) ==
  \/ a.blockNumber < b.blockNumber
  \/ a.blockNumber = b.blockNumber /\ a.logIndex < b.logIndex

RECURSIVE ChainOrder(_)
ChainOrder(S) ==
  IF S = {} THEN <<>>
  ELSE LET first == CHOOSE x \in S : \A y \in S \ {x} : ChainBefore(x, y)
       IN <<first>> \o ChainOrder(S \ {first})

GetLogs(addresses, fromBlock, toBlock) ==
  ChainOrder({l \in chain : /\ l.address \in addresses
                            /\ l.blockNumber >= fromBlock
                            /\ l.blockNumber <= toBlock
                            /\ l.blockNumber <= head})

(***************************************************************************)
(* parseBondingCurveEvent / parseSwapEvent: <<>> for null, else <<event>>. *)
(***************************************************************************)
BaseEvent(log, type, timestamp) ==
  [type |-> type, blockNumber |-> log.blockNumber,
   transactionIndex |-> log.transactionIndex, logIndex |-> log.logIndex,
   address |-> log.address, token |-> log.token, timestamp |-> timestamp]

ParsedTypeName(eventName) ==
  IF eventName = "CurveTokenListed" THEN "CurveListed" ELSE eventName

parseBondingCurveEvent(log, timestamp) ==
  IF log.topic \notin CURVE_EVENT_ABIS THEN <<>>
  ELSE <<BaseEvent(log, ParsedTypeName(log.topic), timestamp)>>

parseSwapEvent(log, timestamp) ==
  IF log.topic \notin SWAP_EVENT_ABI THEN <<>>
  ELSE <<BaseEvent(log, "Swap", timestamp)>>

(***************************************************************************)
(* sortEventsChronologically: Array.prototype.sort (stable) under the      *)
(* comparator on (blockNumber, transactionIndex, logIndex).                *)
(***************************************************************************)
\* A variant of the comparator that looks at the block number only.
CompareBlocksOnly(a, b) == a.blockNumber - b.blockNumber

Compare(a, b) ==
  IF a.blockNumber # b.blockNumber THEN a.blockNumber - b.blockNumber
  ELSE IF a.transactionIndex # b.transactionIndex
       THEN a.transactionIndex - b.transactionIndex
       ELSE a.logIndex - b.logIndex

RECURSIVE InsertSorted(_, _)
InsertSorted(sorted, e) ==
  IF sorted = <<>> THEN <<e>>
  ELSE IF Compare(Head(sorted), e) <= 0
       THEN <<Head(sorted)>> \o InsertSorted(Tail(sorted), e)
       ELSE <<e>> \o sorted

RECURSIVE SortFrom(_, _)
SortFrom(sorted, rest) ==
  IF rest = <<>> THEN sorted
  ELSE SortFrom(InsertSorted(sorted, Head(rest)), Tail(rest))

sortEventsChronologically(events) == SortFrom(<<>>, events)

(***************************************************************************)
(* Indexer.processLogs and Indexer.fetchEvents (curve and DEX).            *)
(***************************************************************************)
NoFilter == [given |-> FALSE, list |-> {}]
Filter(S) == [given |-> TRUE, list |-> S]

LowerSet(S) == {ToLower(t) : t \in S}

CurveKeeps(e, evTypes, tokFilter) ==
  /\ ~(evTypes.given /\ e.type \notin evTypes.list)
  /\ ~(tokFilter.given /\ ToLower(e.token) \notin LowerSet(tokFilter.list))

RECURSIVE CurveCollect(_, _, _)
CurveCollect(logs, evTypes, tokFilter) ==
  IF logs = <<>> THEN <<>>
  ELSE LET event == parseBondingCurveEvent(Head(logs), 0)
           rest == CurveCollect(Tail(logs), evTypes, tokFilter)
       IN IF event = <<>> THEN rest
          ELSE IF CurveKeeps(event[1], evTypes, tokFilter)
               THEN event \o rest
               ELSE rest

CurveProcessLogs(logs, evTypes, tokFilter) ==
  sortEventsChronologically(CurveCollect(logs, evTypes, tokFilter))

RECURSIVE DexCollect(_)
DexCollect(logs) ==
  IF logs = <<>> THEN <<>>
  ELSE parseSwapEvent(Head(logs), 0) \o DexCollect(Tail(logs))

DexProcessLogs(logs) == sortEventsChronologically(DexCollect(logs))

CurveFetchEvents(fromBlock, toBlock, evTypes, tokFilter) ==
  CurveProcessLogs(GetLogs({CURVE}, fromBlock, toBlock), evTypes, tokFilter)

DexFetchEvents(fromBlock, toBlock) ==
  IF Len(idxPools) = 0 THEN <<>>
  ELSE DexProcessLogs(GetLogs(Range(idxPools), fromBlock, toBlock))

FetchEvents(fromBlock, toBlock, evTypes, tokFilter) ==
  IF idxKind = "curve"
  THEN CurveFetchEvents(fromBlock, toBlock, evTypes, tokFilter)
  ELSE DexFetchEvents(fromBlock, toBlock)

(***************************************************************************)
(* Indexer.fetchAllEvents (curve and DEX): the batching loop.  Each await  *)
(* is a step: getBlockNumber, then one fetchEvents per batch.              *)
(***************************************************************************)
ToBlock(currentBlock, batchSize, targetBlock) ==
  Min(currentBlock + batchSize - 1, targetBlock)

\* A cursor that skips the block after each batch.
NextCursorSkips(toBlock) == toBlock + 2

NextCursor(toBlock) == toBlock + 1

\* A loop bound that follows the chain head instead of the captured one.
TargetBlockReread(captured, current) == current

\* The head the loop runs to: read once, before the loop.
TargetBlock(captured, current) == captured

\* while (currentBlock <= targetBlock): the next fetchEvents call, or the return.
\* A variant whose loop body runs at least once (do ... while).
LoopEntersAnyway(currentBlock, targetBlock) == TRUE

\* while (currentBlock <= targetBlock)
LoopCondition(currentBlock, targetBlock) == currentBlock <= targetBlock

FaLoop(currentBlock, targetBlock, allEvents) ==
  IF LoopCondition(currentBlock, targetBlock)
  THEN /\ faPc' = "fetch"
       /\ faQueries' = Append(faQueries,
                              <<currentBlock, ToBlock(currentBlock, faBatch, targetBlock)>>)
       /\ faResult' = faResult
  ELSE /\ faPc' = "done"
       /\ faQueries' = faQueries
       /\ faResult' = sortEventsChronologically(allEvents)

IdxKinds == {"curve", "dex"}
IdxPoolChoices == {<<Pool1>>, <<Pool1, Pool2>>, <<>>}
EventTypeChoices ==
  {NoFilter, Filter({CurveEventType.Create, CurveEventType.Sell}),
   Filter({CurveEventType.Listed})}
TokenChoices == {NoFilter, Filter({"0xABC1"})}
BatchSizes == (1..MaxBatch) \cup {DefaultBatchSize}

FaCall(startBlock, batchSize, evTypes, tokFilter) ==
  /\ faPc = "idle"
  /\ faStart' = startBlock
  /\ faBatch' = batchSize
  /\ faTypes' = evTypes
  /\ faTokens' = tokFilter
  /\ faAll' = <<>>
  /\ faCurrent' = startBlock
  /\ faPc' = "head"
  /\ UNCHANGED <<chainVars, idxKind, idxPools, faTarget, faQueries, faResult, faRejected>>
  /\ UNCHANGED exceptIdx

FetchAllEvents ==
  \E startBlock \in 0..(MaxBlock + 1), batchSize \in BatchSizes :
    \E evTypes \in EventTypeChoices, tokFilter \in TokenChoices :
      /\ idxKind = "dex" => evTypes = NoFilter /\ tokFilter = NoFilter
      /\ FaCall(startBlock, batchSize, evTypes, tokFilter)

\* getBlockNumber() returns: targetBlock is fixed and the loop is entered.
FaGetBlockNumber ==
  /\ faPc = "head"
  /\ faTarget' = head
  /\ FaLoop(faCurrent, head, faAll)
  /\ UNCHANGED <<chainVars, idxKind, idxPools, faStart, faBatch, faTypes, faTokens,
                 faAll, faCurrent, faRejected>>
  /\ UNCHANGED exceptIdx

\* fetchEvents(currentBlock, toBlock) returns: push, then break or advance.
FaFetchReturn ==
  /\ faPc = "fetch"
  /\ LET targetBlock == TargetBlock(faTarget, head)
         toBlock == ToBlock(faCurrent, faBatch, targetBlock)
         events == FetchEvents(faCurrent, toBlock, faTypes, faTokens)
         allEvents == faAll \o events
     IN /\ faAll' = allEvents
        /\ IF toBlock >= targetBlock
           THEN /\ faPc' = "done"
                /\ faResult' = sortEventsChronologically(allEvents)
                /\ UNCHANGED <<faCurrent, faQueries>>
           ELSE /\ faCurrent' = NextCursor(toBlock)
                /\ FaLoop(NextCursor(toBlock), targetBlock, allEvents)
  /\ UNCHANGED <<chainVars, idxKind, idxPools, faStart, faBatch, faTypes, faTokens,
                 faTarget, faRejected>>
  /\ UNCHANGED exceptIdx

\* A variant with a catch around the loop that returns what was gathered.
RejectedReturnsPartial(allEvents) ==
  [pc |-> "done", result |-> sortEventsChronologically(allEvents)]

\* An awaited call rejects: nothing in fetchAllEvents catches, so the call ends
\* by throwing and returns nothing.
Rejected(allEvents) == [pc |-> "failed", result |-> <<>>]

\* getBlockNumber or a fetchEvents rejects: the exception leaves fetchAllEvents.
FaFail ==
  /\ faPc \in {"head", "fetch"}
  /\ faPc' = Rejected(faAll).pc
  /\ faResult' = Rejected(faAll).result
  /\ faRejected' = TRUE
  /\ UNCHANGED <<chainVars, idxKind, idxPools, faStart, faBatch, faTypes, faTokens,
                 faCurrent, faTarget, faAll, faQueries>>
  /\ UNCHANGED exceptIdx

\* A new block is mined while the call runs.
AdvanceHead ==
  /\ head < MaxBlock
  /\ head' = head + 1
  /\ UNCHANGED <<chain, idxVars>>
  /\ UNCHANGED exceptIdx

IdxIdle ==
  /\ faPc = "idle"
  /\ faStart = 0
  /\ faBatch = 1
  /\ faTypes = NoFilter
  /\ faTokens = NoFilter
  /\ faCurrent = 0
  /\ faTarget = 0
  /\ faAll = <<>>
  /\ faQueries = <<>>
  /\ faResult = <<>>
  /\ faRejected = FALSE

IdxInit ==
  /\ idxKind \in IdxKinds
  /\ chain \in SUBSET (IF idxKind = "curve" THEN CurveLogs ELSE PoolLogs)
  /\ head \in 0..MaxBlock
  /\ idxPools \in IdxPoolChoices
  /\ idxKind = "curve" => idxPools = <<>>
  /\ IdxIdle

(***************************************************************************)
(* Stream (curve and DEX): listeners.  A listener is [id, kind]; kind is   *)
(* what the callback does when called: "plain" nothing, "adds" registers   *)
(* one more listener the first time it is called (and is "added" after),   *)
(* "clears" calls removeAllListeners(), "throws" raises.  The ids drawn by *)
(* Math.random are taken to be distinct.                                   *)
(***************************************************************************)
MaxListeners == 2
MaxBatches == 1
\* Batches when one may be delivered while another is being processed.
MaxOverlapping == 2
MaxSubs == 2

ListenerKinds == {"plain", "adds", "clears", "throws"}

Ids(L) == {L[k].id : k \in DOMAIN L}

\* An id that is none of those in use.
FreshId(used) ==
  CHOOSE n \in 1..(Cardinality(used) + 1) : n \notin used /\ \A m \in 1..(n - 1) : m \in used

RemoveId(L, id) == SelectSeq(L, LAMBDA cb : cb.id # id)

MarkAdded(L, id) ==
  [k \in DOMAIN L |-> IF L[k].id = id THEN [L[k] EXCEPT !.kind = "added"] ELSE L[k]]

\* What calling callback cb does to the listeners Map L: [listeners, threw].
\* seen: the ids met so far in this dispatch, which a new listener's id avoids.
Callback(L, cb, seen) ==
  CASE cb.kind = "adds" ->
         [listeners |-> Append(MarkAdded(L, cb.id),
                               [id |-> FreshId(Ids(L) \cup seen), kind |-> "plain"]),
          threw |-> FALSE]
    [] cb.kind = "clears" -> [listeners |-> <<>>, threw |-> FALSE]
    [] cb.kind = "throws" -> [listeners |-> L, threw |-> TRUE]
    [] OTHER -> [listeners |-> L, threw |-> FALSE]

\* curve: this.listeners.forEach(callback => callback(event)).  Map.forEach walks
\* the live Map in insertion order: entries added during the walk are visited,
\* entries deleted before being reached are not; a throwing callback ends it.
RECURSIVE ForEach(_, _, _, _)
ForEach(L, p, got, seen) ==
  IF p > Len(L)
  THEN [listeners |-> L, receivers |-> got, threw |-> FALSE]
  ELSE LET r == Callback(L, L[p], seen)
       IN IF r.threw
          THEN [listeners |-> r.listeners, receivers |-> Append(got, L[p].id),
                threw |-> TRUE]
          ELSE ForEach(r.listeners, p + 1, Append(got, L[p].id),
                       seen \cup Ids(r.listeners))

\* DEX: for (const callback of Array.from(this.listeners.values())), each call in
\* its own try/catch: the walk is over a snapshot taken before the first call.
RECURSIVE NotifySnapshot(_, _, _, _, _)
NotifySnapshot(snapshot, L, got, seen, threw) ==
  IF snapshot = <<>>
  THEN [listeners |-> L, receivers |-> got, threw |-> threw]
  ELSE LET r == Callback(L, Head(snapshot), seen)
       IN NotifySnapshot(Tail(snapshot), r.listeners, Append(got, Head(snapshot).id),
                         seen \cup Ids(r.listeners), threw \/ r.threw)

CurveNotify(L) == ForEach(L, 1, <<>>, Ids(L))

DexNotify(L) == NotifySnapshot(L, L, <<>>, Ids(L), FALSE)

\* No log was processed by the step just taken.
NoLast ==
  [log |-> NoLog, parsed |-> FALSE, typeOk |-> FALSE, tokenOk |-> FALSE,
   dispatched |-> FALSE, before |-> {}, receivers |-> <<>>, running |-> FALSE,
   threw |-> FALSE, types |-> {}, error |-> FALSE, behind |-> {}]

(***************************************************************************)
(* Stream: registration and configuration.                                 *)
(***************************************************************************)
\* onEvent / onSwap
OnEvent(kind) ==
  /\ Len(listeners) < MaxListeners
  /\ listeners' = Append(listeners, [id |-> FreshId(Ids(listeners)), kind |-> kind])
  /\ UNCHANGED <<strKind, eventTypes, tokenFilter, isRunning, watchFn, watchFunctions,
                 poolAddresses, reconnectAttempts, subs, tasks, batches>>
  /\ last' = NoLast
  /\ UNCHANGED exceptStr

RegisterListener == \E kind \in ListenerKinds : OnEvent(kind)

\* the function onEvent / onSwap returned
Unsubscribe ==
  \E id \in Ids(listeners) :
    /\ listeners' = RemoveId(listeners, id)
    /\ UNCHANGED <<strKind, eventTypes, tokenFilter, isRunning, watchFn, watchFunctions,
                   poolAddresses, reconnectAttempts, subs, tasks, batches>>
    /\ last' = NoLast
    /\ UNCHANGED exceptStr

RemoveAllListeners ==
  /\ listeners # <<>>
  /\ listeners' = <<>>
  /\ UNCHANGED <<strKind, eventTypes, tokenFilter, isRunning, watchFn, watchFunctions,
                 poolAddresses, reconnectAttempts, subs, tasks, batches>>
  /\ last' = NoLast
  /\ UNCHANGED exceptStr

StreamTypeChoices == {{}, {CurveEventType.Create}, AllCurveEventTypes}
StreamTokenChoices == {{}, {"0xABC1"}}

SubscribeEvents ==
  \E types \in StreamTypeChoices :
    /\ strKind = "curve"
    /\ types # eventTypes
    /\ eventTypes' = types
    /\ UNCHANGED <<strKind, tokenFilter, listeners, isRunning, watchFn, watchFunctions,
                   poolAddresses, reconnectAttempts, subs, tasks, batches>>
    /\ last' = NoLast
    /\ UNCHANGED exceptStr

FilterTokens ==
  \E tokens \in StreamTokenChoices :
    /\ strKind = "curve"
    /\ tokenFilter # Filter(LowerSet(tokens))
    /\ tokenFilter' = Filter(LowerSet(tokens))
    /\ UNCHANGED <<strKind, eventTypes, listeners, isRunning, watchFn, watchFunctions,
                   poolAddresses, reconnectAttempts, subs, tasks, batches>>
    /\ last' = NoLast
    /\ UNCHANGED exceptStr

(***************************************************************************)
(* Stream: start, stop and the subscriptions.  watchEvent and              *)
(* watchContractEvent create a live subscription and return the function   *)
(* that releases it.                                                       *)
(***************************************************************************)
Sub(id, address) == [id |-> id, address |-> address]

SubIds(S) == {x.id : x \in S}

\* What watchEvent / watchContractEvent may do: it returns the release
\* function of a new subscription, or it throws.  startWatching and
\* watchPoolEvents call it inside try / catch, and the catch only logs.
WatchOutcomes == {"returns", "throws"}

\* DEX Stream.watchPoolEvents: the subscription is created and its release
\* function pushed, or the call throws and nothing is pushed; st is
\* [subs, watchFunctions, failing], failing the pools whose call throws.
WatchPoolEvents(st, poolAddress) ==
  LET id == FreshId(SubIds(st.subs))
  IN IF poolAddress \in st.failing THEN st
     ELSE [st EXCEPT !.subs = st.subs \cup {Sub(id, poolAddress)},
                     !.watchFunctions = Append(st.watchFunctions, id)]

\* for (const poolAddress of pools) this.watchPoolEvents(poolAddress)
RECURSIVE WatchEach(_, _)
WatchEach(st, pools) ==
  IF pools = <<>> THEN st
  ELSE WatchEach(WatchPoolEvents(st, Head(pools)), Tail(pools))

\* A variant of start() without the test of isRunning.
StartsAgain(running) == FALSE

\* if (this.isRunning) return
AlreadyRunning(running) == running

\* curve Stream.start (with startWatching)
CurveStart ==
  /\ strKind = "curve"
  /\ IF AlreadyRunning(isRunning)
     THEN UNCHANGED <<eventTypes, isRunning, watchFn, reconnectAttempts, subs>>
     ELSE /\ Cardinality(subs) < MaxSubs
          /\ isRunning' = TRUE
          /\ reconnectAttempts' = 0
          /\ eventTypes' = IF eventTypes = {} THEN AllCurveEventTypes ELSE eventTypes
          /\ \E outcome \in WatchOutcomes :
               IF outcome = "returns"
               THEN /\ watchFn' = FreshId(SubIds(subs))
                    /\ subs' = subs \cup {Sub(FreshId(SubIds(subs)), CURVE)}
               ELSE UNCHANGED <<watchFn, subs>>
  /\ UNCHANGED <<strKind, tokenFilter, listeners, watchFunctions, poolAddresses, tasks,
                 batches>>
  /\ last' = NoLast
  /\ UNCHANGED exceptStr

\* What calling a release function (unwatch) may do: it returns, having ended
\* the subscription, or it throws, the subscription still live.  Both stop()
\* methods call it inside try / catch.
UnwatchOutcomes == {"returns", "throws"}

\* curve Stream.stop: this.watchFn = null is inside the try, after the call.
CurveStop ==
  /\ strKind = "curve"
  /\ IF ~isRunning
     THEN UNCHANGED <<listeners, isRunning, watchFn, reconnectAttempts, subs>>
     ELSE /\ \E outcome \in UnwatchOutcomes :
               IF watchFn # 0 /\ outcome = "returns"
               THEN /\ subs' = {x \in subs : x.id # watchFn}
                    /\ watchFn' = 0
               ELSE UNCHANGED <<subs, watchFn>>
          /\ listeners' = <<>>
          /\ isRunning' = FALSE
          /\ reconnectAttempts' = 0
  /\ UNCHANGED <<strKind, eventTypes, tokenFilter, watchFunctions, poolAddresses, tasks,
                 batches>>
  /\ last' = NoLast
  /\ UNCHANGED exceptStr

\* DEX Stream.start (with watchPoolEvents)
DexStart ==
  /\ strKind = "dex"
  /\ IF AlreadyRunning(isRunning) \/ Len(poolAddresses) = 0
     THEN UNCHANGED <<isRunning, watchFunctions, reconnectAttempts, subs>>
     ELSE /\ Cardinality(subs) + Len(poolAddresses) <= MaxSubs
          /\ isRunning' = TRUE
          /\ reconnectAttempts' = 0
          /\ \E failing \in SUBSET Range(poolAddresses) :
               LET st == WatchEach([subs |-> subs, watchFunctions |-> watchFunctions,
                                    failing |-> failing], poolAddresses)
               IN /\ watchFunctions' = st.watchFunctions
                  /\ subs' = st.subs
  /\ UNCHANGED <<strKind, eventTypes, tokenFilter, listeners, watchFn, poolAddresses,
                 tasks, batches>>
  /\ last' = NoLast
  /\ UNCHANGED exceptStr

\* DEX Stream.stop: each unwatch() in its own try / catch, then
\* this.watchFunctions = [] whatever happened.
DexStop ==
  /\ strKind = "dex"
  /\ IF ~isRunning
     THEN UNCHANGED <<listeners, isRunning, watchFunctions, reconnectAttempts, subs>>
     ELSE /\ \E thrown \in SUBSET Range(watchFunctions) :
               subs' = {x \in subs : x.id \notin (Range(watchFunctions) \ thrown)}
          /\ watchFunctions' = <<>>
          /\ listeners' = <<>>
          /\ isRunning' = FALSE
          /\ reconnectAttempts' = 0
  /\ UNCHANGED <<strKind, eventTypes, tokenFilter, watchFn, poolAddresses, tasks,
                 batches>>
  /\ last' = NoLast
  /\ UNCHANGED exceptStr

PoolListChoices == {<<Pool1>>, <<Pool2>>, <<Pool1, Pool2>>}

\* DEX Stream.addPoolAddresses
AddPoolAddresses ==
  \E addresses \in PoolListChoices :
    LET newPools == SelectSeq(addresses, LAMBDA a : a \notin Range(poolAddresses))
    IN /\ strKind = "dex"
       /\ poolAddresses' = poolAddresses \o newPools
       /\ IF isRunning
          THEN /\ Cardinality(subs) + Len(newPools) <= MaxSubs
               /\ \E failing \in SUBSET Range(newPools) :
                    LET st == WatchEach([subs |-> subs,
                                         watchFunctions |-> watchFunctions,
                                         failing |-> failing], newPools)
                    IN /\ watchFunctions' = st.watchFunctions
                       /\ subs' = st.subs
          ELSE UNCHANGED <<watchFunctions, subs>>
       /\ UNCHANGED <<strKind, eventTypes, tokenFilter, listeners, isRunning, watchFn,
                      reconnectAttempts, tasks, batches>>
       /\ last' = NoLast
       /\ UNCHANGED exceptStr

\* DEX Stream.removePoolAddresses
RemovePoolAddresses ==
  \E addresses \in PoolListChoices :
    /\ strKind = "dex"
    /\ poolAddresses' = SelectSeq(poolAddresses, LAMBDA a : a \notin Range(addresses))
    /\ UNCHANGED <<strKind, eventTypes, tokenFilter, listeners, isRunning, watchFn,
                   watchFunctions, reconnectAttempts, subs, tasks, batches>>
    /\ last' = NoLast
    /\ UNCHANGED exceptStr

(***************************************************************************)
(* Stream: log batches.  onLogs starts a processLogs / processSwapLogs     *)
(* run, which awaits getBlock once per log; a run is a task [logs, i,      *)
(* pool, behind] waiting for the block of logs[i].  The tasks are in the   *)
(* order in which their batches were delivered; behind is the set of       *)
(* listeners that have been called with an event of a later batch since    *)
(* the run began.                                                          *)
(***************************************************************************)
BatchesFor(address) ==
  CASE address = CURVE ->
         {<<LogCreate, LogListed>>, <<LogTransfer, LogSell>>}
    [] address = Pool1 -> {<<LogSwap1, LogSwap3>>}
    [] address = Pool2 -> {<<LogSwap2>>}
    [] OTHER -> {}

\* DEX: logs that parseEventLogs does not decode are skipped before any await.
RECURSIVE NextSwap(_, _)
NextSwap(logs, i) ==
  IF i > Len(logs) THEN i
  ELSE IF parseSwapEvent(logs[i], 0) = <<>> THEN NextSwap(logs, i + 1) ELSE i

FirstLog(logs) == IF strKind = "curve" THEN 1 ELSE NextSwap(logs, 1)

FollowingLog(logs, i) == IF strKind = "curve" THEN i + 1 ELSE NextSwap(logs, i + 1)

\* A variant in which a run ends at the log it has just dealt with.
Abandon(k) ==
  [j \in 1..(Len(tasks) - 1) |-> IF j < k THEN tasks[j] ELSE tasks[j + 1]]

\* The tasks once task k has dealt with its current log.
Advance(k) ==
  LET t == tasks[k]
      n == FollowingLog(t.logs, t.i)
  IN IF n > Len(t.logs)
     THEN [j \in 1..(Len(tasks) - 1) |-> IF j < k THEN tasks[j] ELSE tasks[j + 1]]
     ELSE [tasks EXCEPT ![k].i = n]

\* The subscription delivers a batch: onLogs(logs) starts a run and does not
\* wait for the runs before it; limit bounds the batches delivered.
Deliver(limit) ==
  \E sub \in subs :
    \E logs \in BatchesFor(sub.address) :
      /\ batches < limit
      /\ batches' = batches + 1
      /\ tasks' = IF FirstLog(logs) > Len(logs) THEN tasks
                  ELSE Append(tasks, [logs |-> logs, i |-> FirstLog(logs),
                                      pool |-> sub.address, behind |-> {}])
      /\ UNCHANGED <<strKind, eventTypes, tokenFilter, listeners, isRunning, watchFn,
                     watchFunctions, poolAddresses, reconnectAttempts, subs>>
      /\ last' = NoLast
      /\ UNCHANGED exceptStr

\* A variant of onError that counts the attempt and subscribes again.
OnErrorReconnects ==
  \E sub \in subs :
    LET again == isRunning /\ reconnectAttempts < 5
        id == FreshId(SubIds(subs))
    IN /\ reconnectAttempts' = IF again THEN reconnectAttempts + 1 ELSE reconnectAttempts
       /\ subs' = IF again THEN (subs \ {sub}) \cup {Sub(id, sub.address)} ELSE subs
       /\ watchFn' = IF again /\ watchFn = sub.id THEN id ELSE watchFn
       /\ watchFunctions' =
            IF again
            THEN [j \in DOMAIN watchFunctions |->
                    IF watchFunctions[j] = sub.id THEN id ELSE watchFunctions[j]]
            ELSE watchFunctions
       /\ UNCHANGED <<strKind, eventTypes, tokenFilter, listeners, isRunning,
                      poolAddresses, tasks, batches>>
       /\ last' = [NoLast EXCEPT !.error = TRUE, !.running = isRunning]
       /\ UNCHANGED exceptStr

\* The subscription reports an error:
\* onError: error => { console.error(..., error) }
OnError ==
  \E sub \in subs :
    /\ UNCHANGED <<strKind, eventTypes, tokenFilter, listeners, isRunning, watchFn,
                   watchFunctions, poolAddresses, reconnectAttempts, subs, tasks,
                   batches>>
    /\ last' = [NoLast EXCEPT !.error = TRUE, !.running = isRunning]
    /\ UNCHANGED exceptStr

OnLogs == Deliver(MaxBatches)

OnLogsOverlapping == Deliver(MaxOverlapping)

\* block.timestamp of the log's block
Timestamp(log) == 1000 + log.blockNumber

StreamTypeOk(event) == event.type \in eventTypes

\* A variant that lets every token through.
TokenFilterIgnored(event) == TRUE

\* if (this.tokenFilter && this.tokenFilter.size > 0)
\*   if (!this.tokenFilter.has(event.token.toLowerCase())) continue
StreamTokenOk(event) ==
  (tokenFilter.given /\ tokenFilter.list # {}) => ToLower(event.token) \in tokenFilter.list

\* curve Stream.processLogs: the body of the loop for one log, once getBlock
\* has returned.
CurveProcessLog(k) ==
  LET log == tasks[k].logs[tasks[k].i]
      parsedEvent == parseBondingCurveEvent(log, Timestamp(log))
      event == parsedEvent[1]
      pass == parsedEvent # <<>> /\ StreamTypeOk(event) /\ StreamTokenOk(event)
      r == CurveNotify(listeners)
  IN /\ last' = [log |-> log, parsed |-> parsedEvent # <<>>,
                 typeOk |-> parsedEvent # <<>> /\ StreamTypeOk(event),
                 tokenOk |-> parsedEvent # <<>> /\ StreamTokenOk(event),
                 dispatched |-> pass, before |-> IF pass THEN Ids(listeners) ELSE {},
                 receivers |-> IF pass THEN r.receivers ELSE <<>>,
                 running |-> isRunning, threw |-> pass /\ r.threw,
                 types |-> eventTypes, error |-> FALSE, behind |-> tasks[k].behind]
     /\ listeners' = IF pass THEN r.listeners ELSE listeners
     /\ reconnectAttempts' =
          IF parsedEvent = <<>> THEN reconnectAttempts
          ELSE IF ~StreamTypeOk(event) THEN 0
          ELSE IF ~StreamTokenOk(event) THEN reconnectAttempts
          ELSE IF r.threw THEN reconnectAttempts
          ELSE 0

\* DEX Stream.processSwapLogs: the body of the loop for one decoded log, once
\* getBlock has returned.
DexProcessLog(k) ==
  LET log == tasks[k].logs[tasks[k].i]
      r == DexNotify(listeners)
  IN /\ last' = [log |-> log, parsed |-> TRUE, typeOk |-> TRUE, tokenOk |-> TRUE,
                 dispatched |-> TRUE, before |-> Ids(listeners),
                 receivers |-> r.receivers, running |-> isRunning, threw |-> r.threw,
                 types |-> {}, error |-> FALSE, behind |-> tasks[k].behind]
     /\ listeners' = r.listeners
     /\ reconnectAttempts' = 0

\* The runs ts once the listeners ids have been called by the run at place k:
\* the runs of earlier batches of the same address are behind for them.
Overtaken(ts, k, ids) ==
  [j \in DOMAIN ts |->
     IF j < k /\ ts[j].pool = tasks[k].pool
     THEN [ts[j] EXCEPT !.behind = @ \cup ids]
     ELSE ts[j]]

\* getBlock returns to a waiting run, whichever it is: the log is processed and
\* the run goes on to its next log.
GetBlockReturns ==
  \E k \in DOMAIN tasks :
    /\ IF strKind = "curve" THEN CurveProcessLog(k) ELSE DexProcessLog(k)
    /\ tasks' = Overtaken(Advance(k), k, Range(last'.receivers))
    /\ UNCHANGED <<strKind, eventTypes, tokenFilter, isRunning, watchFn, watchFunctions,
                   poolAddresses, subs, batches>>
    /\ UNCHANGED exceptStr

\* getBlock rejects: the catch logs the error and the loop goes on.
GetBlockFails ==
  \E k \in DOMAIN tasks :
    /\ tasks' = Advance(k)
    /\ UNCHANGED <<strKind, eventTypes, tokenFilter, listeners, isRunning, watchFn,
                   watchFunctions, poolAddresses, reconnectAttempts, subs, batches>>
    /\ last' = NoLast
    /\ UNCHANGED exceptStr

StrIdle ==
  /\ strKind = "curve"
  /\ eventTypes = {}
  /\ tokenFilter = NoFilter
  /\ listeners = <<>>
  /\ isRunning = FALSE
  /\ watchFn = 0
  /\ watchFunctions = <<>>
  /\ poolAddresses = <<>>
  /\ reconnectAttempts = 0
  /\ subs = {}
  /\ tasks = <<>>
  /\ batches = 0
  /\ last = NoLast

\* new Stream(rpcUrl)
CurveStreamInit ==
  /\ StrIdle

InitialPoolChoices == {<<>>, <<Pool1>>, <<Pool1, Pool2>>}

\* new Stream(rpcUrl, poolAddresses)
DexStreamInit ==
  /\ strKind = "dex"
  /\ eventTypes = {}
  /\ tokenFilter = NoFilter
  /\ listeners = <<>>
  /\ isRunning = FALSE
  /\ watchFn = 0
  /\ watchFunctions = <<>>
  /\ poolAddresses \in InitialPoolChoices
  /\ reconnectAttempts = 0
  /\ subs = {}
  /\ tasks = <<>>
  /\ batches = 0
  /\ last = NoLast

(***************************************************************************)
(* The lens contract and the routers (chain collaborators of Trade).  A    *)
(* token trades on the bonding curve until it is listed, on the DEX after. *)
(***************************************************************************)
MaxAmount == 2

BONDING_CURVE_ROUTER == "0xRCURVE"
DEX_ROUTER == "0xRDEX"

Tokens == {TokA, TokB}
Routers == {BONDING_CURVE_ROUTER, DEX_ROUTER}

\* lens.read.getAmountOut([token, amountIn, isBuy]) as the chain answers it now:
\* the venue's router and the venue's price.
LensGetAmountOut(token, amountIn, isBuy) ==
  IF token \in listed
  THEN [router |-> DEX_ROUTER, amount |-> amountIn * 30]
  ELSE [router |-> BONDING_CURVE_ROUTER, amount |-> amountIn * 20]

\* Trade.getAmountOut
getAmountOut(token, amountIn, isBuy) == LensGetAmountOut(token, amountIn, isBuy)

\* The token's liquidity moves from the curve to the DEX.
GraduateToken(token) ==
  /\ token \notin listed
  /\ listed' = listed \cup {token}
  /\ UNCHANGED exceptLens

Graduate == \E token \in Tokens : GraduateToken(token)

(***************************************************************************)
(* Slippage.  A slippage percent is held in thousandths of a percent       *)
(* (5.0 is 5000), so that Math.floor(slippagePercent * 100) has a          *)
(* fraction to drop.                                                       *)
(***************************************************************************)
PercentUnit == 1000

\* The percents below 2.0 whose product with 100, a double, falls just short of
\* the whole number it stands for: 0.29 * 100 is 28.999999999999996.  None of
\* the other percents used here has that.
ProductFallsShort == {290, 570, 580, 1130, 1140, 1150, 1160}

\* Math.floor(slippagePercent * 100)
SlippageBp(slippagePercent) ==
  IF slippagePercent \in ProductFallsShort
  THEN (slippagePercent * 100) \div PercentUnit - 1
  ELSE (slippagePercent * 100) \div PercentUnit

\* [threw, value]
calculateMinAmountOut(amountOut, slippagePercent) ==
  IF slippagePercent < 0 \/ slippagePercent >= 100 * PercentUnit
  THEN [threw |-> TRUE, value |-> 0]
  ELSE [threw |-> FALSE,
        value |-> (amountOut * (10000 - SlippageBp(slippagePercent))) \div 10000]

calculateMaxAmountIn(amountIn, slippagePercent) ==
  IF slippagePercent < 0 \/ slippagePercent >= 100 * PercentUnit
  THEN [threw |-> TRUE, value |-> 0]
  ELSE [threw |-> FALSE,
        value |-> (amountIn * (10000 + SlippageBp(slippagePercent))) \div 10000]

(***************************************************************************)
(* Trade.buy / sell / sellPermit: encode the call, sendTransaction to the  *)
(* given router, waitForTransactionReceipt, return receipt.transactionHash.*)
(***************************************************************************)
TradeMethods == {"buy", "sell", "sellPermit"}

\* The status field of a mined receipt.
ReceiptStatuses == {"success", "reverted"}

NoCall == [method |-> "", router |-> "", token |-> "", amountIn |-> 0, amountOutMin |-> 0]

TradeCalls ==
  [method : TradeMethods, router : Routers, token : Tokens,
   amountIn : 1..MaxAmount, amountOutMin : 0..MaxAmount]

\* The transaction sendTransaction submits for a call.
Transaction(call) ==
  [to |-> call.router, functionName |-> call.method, token |-> call.token,
   amountIn |-> call.amountIn, amountOutMin |-> call.amountOutMin,
   value |-> IF call.method = "buy" THEN call.amountIn ELSE 0]

\* How a call ends: it throws when sendTransaction or waitForTransactionReceipt
\* rejects, and returns the hash of whatever receipt it obtained otherwise.
TradeEnd(sent, receipt) ==
  IF sent /\ receipt \in ReceiptStatuses THEN "returned" ELSE "threw"

\* buy(params, router) / sell(params, router) / sellPermit(params, router)
TradeCall ==
  \E call \in TradeCalls :
    /\ trPc \in {"idle", "returned", "threw"}
    /\ trCall' = call
    /\ trPc' = "send"
    /\ trSent' = <<>>
    /\ trReceipt' = "none"
    /\ trReturn' = 0
    /\ UNCHANGED exceptTrade

\* walletClient.sendTransaction resolves with the hash
SendTransactionReturns ==
  /\ trPc = "send"
  /\ trSent' = Append(trSent, Transaction(trCall))
  /\ trPc' = "receipt"
  /\ UNCHANGED <<trCall, trReceipt, trReturn>>
  /\ UNCHANGED exceptTrade

\* walletClient.sendTransaction rejects
SendTransactionFails ==
  /\ trPc = "send"
  /\ trPc' = TradeEnd(FALSE, "none")
  /\ UNCHANGED <<trCall, trSent, trReceipt, trReturn>>
  /\ UNCHANGED exceptTrade

\* publicClient.waitForTransactionReceipt resolves: the transaction was mined,
\* successfully or reverted.
ReceiptReturns ==
  \E status \in ReceiptStatuses :
    /\ trPc = "receipt"
    /\ trReceipt' = status
    /\ trPc' = TradeEnd(TRUE, status)
    /\ trReturn' = IF TradeEnd(TRUE, status) = "returned" THEN Len(trSent) ELSE 0
    /\ UNCHANGED <<trCall, trSent>>
    /\ UNCHANGED exceptTrade

\* A variant that submits the transaction again when the wait fails.
ReceiptFailsResubmits ==
  /\ trPc = "receipt"
  /\ Len(trSent) < 3
  /\ trPc' = "send"
  /\ UNCHANGED <<trCall, trSent, trReceipt, trReturn>>
  /\ UNCHANGED exceptTrade

\* publicClient.waitForTransactionReceipt rejects: the transaction was dropped
\* or the wait timed out.
ReceiptFails ==
  /\ trPc = "receipt"
  /\ trPc' = TradeEnd(TRUE, "none")
  /\ UNCHANGED <<trCall, trSent, trReceipt, trReturn>>
  /\ UNCHANGED exceptTrade

TradeIdle ==
  /\ trCall = NoCall
  /\ trPc = "idle"
  /\ trSent = <<>>
  /\ trReceipt = "none"
  /\ trReturn = 0

LensInit == listed \in SUBSET Tokens

LensIdle == listed = {}

(***************************************************************************)
(* BundlerBot.execute.  The loop over the operations runs from one await   *)
(* to the next; bPc names the call being awaited.  An amount string is     *)
(* held as the amount parseEther / parseUnits makes of it.                 *)
(***************************************************************************)
MaxOps == 2

DefaultSlippagePercent == 5 * PercentUnit

Undefined == [given |-> FALSE, value |-> 0]
Given(v) == [given |-> TRUE, value |-> v]

\* a || b for an optional number a: undefined and 0 are both falsy
OrElse(a, b) == IF a.given /\ a.value # 0 THEN a.value ELSE b

Operation(type, token, amountIn, slippagePercent) ==
  [type |-> type, token |-> token, amountIn |-> amountIn,
   slippagePercent |-> slippagePercent]

OperationChoices ==
  {Operation("buy", TokA, 1, Undefined),
   Operation("buy", TokB, MaxAmount, Given(0)),
   Operation("sell", TokA, 1, Given(10 * PercentUnit)),
   Operation("sell", TokB, MaxAmount, Undefined),
   Operation("sellPermit", TokA, 1, Undefined),
   Operation("transfer", TokA, 1, Undefined)}

RECURSIVE SeqsUpTo(_, _)
SeqsUpTo(S, n) ==
  IF n = 0 THEN {<<>>}
  ELSE SeqsUpTo(S, n - 1) \cup {Append(q, x) : q \in SeqsUpTo(S, n - 1), x \in S}

NoLocals ==
  [slippage |-> 0, amountIn |-> 0, router |-> "", quoteRouter |-> "",
   quoteAmount |-> 0, amountOutMin |-> 0]

\* The execute() in progress: [ops, i, pc, loc, results, calls].
BState == [ops |-> bOps, i |-> bI, pc |-> bPc, loc |-> bLoc, results |-> bResults, calls |-> bCalls]

\* A chain call is issued and awaited.
Issue(st, name, router) ==
  [st EXCEPT !.pc = name,
             !.calls = Append(@, [i |-> st.i, name |-> name, router |-> router,
                                  quoteRouter |-> st.loc.quoteRouter,
                                  token |-> st.ops[st.i].token,
                                  amountIn |-> st.loc.amountIn,
                                  slippage |-> st.loc.slippage,
                                  quoteAmount |-> st.loc.quoteAmount,
                                  amountOutMin |-> st.loc.amountOutMin,
                                  sent |-> FALSE, mined |-> FALSE, value |-> -1])]

\* results.push(result); error is whether the result has an error message.
Push(st, success, txHash, receipt) ==
  [st EXCEPT !.results = Append(@, [operation |-> st.i, success |-> success,
                                    txHash |-> txHash, receipt |-> receipt,
                                    error |-> ~success])]

\* The head of the loop body for operation st.i, up to its first await; an
\* operation of unknown type gets its failure result at once.
RECURSIVE Enter(_)
Enter(st) ==
  IF st.i > Len(st.ops) THEN [st EXCEPT !.pc = "done", !.loc = NoLocals]
  ELSE LET operation == st.ops[st.i]
           slippage == OrElse(operation.slippagePercent,
                              OrElse(Given(bConfig.defaultSlippagePercent),
                                     DefaultSlippagePercent))
           fresh == [st EXCEPT !.loc = [NoLocals EXCEPT !.slippage = slippage]]
       IN CASE operation.type = "buy" ->
                 Issue([fresh EXCEPT !.loc.amountIn = operation.amountIn],
                       "getBalance", "")
            [] operation.type \in {"sell", "sellPermit"} ->
                 Issue(fresh, "getDecimals", "")
            [] OTHER ->
                 Enter([Push(st, FALSE, 0, "none") EXCEPT !.i = st.i + 1])

\* executeBuy / executeSell / executeSellPermit returned a result: it is
\* pushed, and with waitForConfirmation the receipt of a successful one is
\* awaited inside the same try.
Finish(st, success, txHash, receipt) ==
  LET pushed == Push(st, success, txHash, receipt)
  IN IF bConfig.waitForConfirmation /\ success /\ txHash # 0
     THEN Issue(pushed, "confirm", "")
     ELSE Enter([pushed EXCEPT !.i = st.i + 1])

\* A variant in which a failed operation ends the loop.
FailureEndsLoop(st) ==
  [Push(st, FALSE, 0, "none") EXCEPT !.pc = "done", !.loc = NoLocals]

\* The operation's method returned { success: false }, from its own test or its
\* catch: the result is pushed and the loop goes on.
Failure(st) == Finish(st, FALSE, 0, "none")

\* A variant that hands the quote on as the minimum, without the slippage.
AfterQuoteWithoutSlippage(st, quote) ==
  LET min == calculateMinAmountOut(quote.amount, st.loc.slippage)
      type == st.ops[st.i].type
      loc == [st.loc EXCEPT !.quoteRouter = quote.router,
                            !.quoteAmount = quote.amount,
                            !.amountOutMin = quote.amount,
                            !.router = IF type = "buy" THEN quote.router ELSE @]
      next == [st EXCEPT !.loc = loc]
  IN IF min.threw THEN Failure(st)
     ELSE IF type = "sellPermit"
          THEN Issue(next, "generatePermitSignature", next.loc.router)
          ELSE Issue(next, "getGasPrice", "")

\* const quote = await this.trade.getAmountOut(token, amountIn, isBuy) and
\* calculateMinAmountOut(quote.amount, slippage), then getGasPrice.
AfterQuote(st, quote) ==
  LET min == calculateMinAmountOut(quote.amount, st.loc.slippage)
      type == st.ops[st.i].type
      loc == [st.loc EXCEPT !.quoteRouter = quote.router,
                            !.quoteAmount = quote.amount,
                            !.amountOutMin = min.value,
                            !.router = IF type = "buy" THEN quote.router ELSE @]
      next == [st EXCEPT !.loc = loc]
  IN IF min.threw THEN Failure(st)
     ELSE IF type = "sellPermit"
          THEN Issue(next, "generatePermitSignature", next.loc.router)
          ELSE Issue(next, "getGasPrice", "")

\* A variant of executeSell that approves whatever the allowance is.
ApprovesAlways(allowance, amountIn) == TRUE

\* if (allowance < amountIn)
NeedsApprove(allowance, amountIn) == allowance < amountIn

\* The awaited call (the last call issued) has returned v; Token.approve returns
\* once writeContract has submitted and waitForTransactionReceipt has resolved.
Returned(st, v) ==
  [st EXCEPT !.calls[Len(st.calls)].value = v,
             !.calls[Len(st.calls)].sent = (st.pc = "approve"),
             !.calls[Len(st.calls)].mined = (st.pc = "approve")]

\* What the operation does once the awaited call st.pc has returned v.
AfterReturn(st, v) ==
  LET operation == st.ops[st.i]
  IN CASE st.pc = "getDecimals" ->
            Issue([st EXCEPT !.loc.amountIn = operation.amountIn], "getBalance", "")
       [] st.pc = "getBalance" ->
            IF v < st.loc.amountIn THEN Failure(st)
            ELSE IF operation.type = "buy" THEN Issue(st, "quote", "")
            ELSE Issue(st, "router", "")
       [] st.pc = "router" ->
            LET next == [st EXCEPT !.loc.router =
                           getAmountOut(operation.token, 1, FALSE).router]
            IN IF operation.type = "sell"
               THEN Issue(next, "getAllowance", next.loc.router)
               ELSE Issue(next, "quote", "")
       [] st.pc = "getAllowance" ->
            IF NeedsApprove(v, st.loc.amountIn) THEN Issue(st, "approve", st.loc.router)
            ELSE Issue(st, "quote", "")
       [] st.pc = "approve" -> Issue(st, "quote", "")
       [] st.pc = "quote" ->
            AfterQuote(st, getAmountOut(operation.token, st.loc.amountIn,
                                        operation.type = "buy"))
       [] st.pc = "generatePermitSignature" -> Issue(st, "getGasPrice", "")
       [] st.pc = "getGasPrice" -> Issue(st, "estimateGas", st.loc.router)
       [] st.pc = "estimateGas" -> Issue(st, operation.type, st.loc.router)
       [] OTHER -> st

\* The trade call in progress (the last call issued) has ended: what it did on
\* the chain.
Submitted(st, sent, receipt) ==
  [st EXCEPT !.calls[Len(st.calls)].sent = sent,
             !.calls[Len(st.calls)].mined = receipt \in ReceiptStatuses]

\* The values the chain may return to the awaited call.
ReturnValues(pc) ==
  IF pc \in {"getBalance", "getAllowance"} THEN {0, MaxAmount} ELSE {0}

BundlerCalls ==
  {"getDecimals", "getBalance", "router", "getAllowance", "approve", "quote",
   "generatePermitSignature", "getGasPrice", "estimateGas"}

SetBundler(st) ==
  /\ bOps' = st.ops
  /\ bI' = st.i
  /\ bPc' = st.pc
  /\ bLoc' = st.loc
  /\ bResults' = st.results
  /\ bCalls' = st.calls

\* execute(operations)
Execute ==
  \E operations \in SeqsUpTo(OperationChoices, MaxOps) :
    /\ bPc = "idle"
    /\ SetBundler(Enter([ops |-> operations, i |-> 1, pc |-> "idle", loc |-> NoLocals,
                         results |-> <<>>, calls |-> <<>>]))
    /\ UNCHANGED <<bConfig, listed>>
    /\ UNCHANGED exceptBundler

\* The awaited call of executeBuy / executeSell / executeSellPermit returns.
CallReturns ==
  \E v \in ReturnValues(bPc) :
    /\ bPc \in BundlerCalls
    /\ SetBundler(AfterReturn(Returned(BState, v), v))
    /\ UNCHANGED <<bConfig, listed>>
    /\ UNCHANGED exceptBundler

\* The awaited call rejects: the method's catch returns a failure result.
CallFails ==
  /\ bPc \in BundlerCalls
  /\ SetBundler(Failure(BState))
  /\ UNCHANGED <<bConfig, listed>>
  /\ UNCHANGED exceptBundler

\* this.trade.buy / sell / sellPermit ends: with a hash, or by throwing into
\* the method's catch.
TradeEnds ==
  \E sent \in BOOLEAN, receipt \in ReceiptStatuses \cup {"none"} :
    /\ bPc \in TradeMethods
    /\ ~sent => receipt = "none"
    /\ SetBundler(IF TradeEnd(sent, receipt) = "returned"
                  THEN Finish(Submitted(BState, sent, receipt), TRUE, Len(bCalls), receipt)
                  ELSE Failure(Submitted(BState, sent, receipt)))
    /\ UNCHANGED <<bConfig, listed>>
    /\ UNCHANGED exceptBundler

\* execute's own waitForTransactionReceipt resolves
ConfirmReturns ==
  /\ bPc = "confirm"
  /\ SetBundler(Enter([Returned(BState, 0) EXCEPT !.i = bI + 1]))
  /\ UNCHANGED <<bConfig, listed>>
  /\ UNCHANGED exceptBundler

\* execute's own waitForTransactionReceipt rejects: execute's catch pushes a
\* failure result for the operation.
ConfirmFails ==
  /\ bPc = "confirm"
  /\ SetBundler(Enter([Push(BState, FALSE, 0, "none") EXCEPT !.i = bI + 1]))
  /\ UNCHANGED <<bConfig, listed>>
  /\ UNCHANGED exceptBundler

BundlerGraduate ==
  /\ bPc \notin {"idle", "done"}
  /\ Graduate

BundlerIdle ==
  /\ bConfig = [defaultSlippagePercent |-> DefaultSlippagePercent,
                waitForConfirmation |-> TRUE]
  /\ bOps = <<>>
  /\ bI = 0
  /\ bPc = "idle"
  /\ bLoc = NoLocals
  /\ bResults = <<>>
  /\ bCalls = <<>>

\* new BundlerBot(config)
BundlerInit ==
  /\ bConfig \in [defaultSlippagePercent : {DefaultSlippagePercent},
                   waitForConfirmation : BOOLEAN]
  /\ bOps = <<>>
  /\ bI = 0
  /\ bPc = "idle"
  /\ bLoc = NoLocals
  /\ bResults = <<>>
  /\ bCalls = <<>>

(***************************************************************************)
(* SniperBot.  The bot's own curve Stream is held as its run flag and the  *)
(* number of listeners the bot has registered on it; a Create event the    *)
(* stream dispatches calls each of them without awaiting it.  A            *)
(* handleCreateEvent invocation that is suspended at an await is a         *)
(* handler [token, pc, router, quoteRouter, quoteAmount, amountOutMin].    *)
(***************************************************************************)
MaxTicks == 2
MaxEvents == 2
MaxHandlers == 2
MaxStarts == 2

DefaultMinBuyInterval == 1000

\* Date.now(): milliseconds; the clock moves in steps of TickMs from Epoch.
TickMs == 500
Epoch == 10000
Now == Epoch + clock * TickMs

MinBuyIntervalChoices == {0, 500, DefaultMinBuyInterval}

ListChoices ==
  {[tokenWhitelist |-> {"0xABC1"}, tokenBlacklist |-> {}],
   [tokenWhitelist |-> {}, tokenBlacklist |-> {"0xDEF2"}]}

SniperConfig(m, l, f, a) ==
  [buyAmount |-> 1, slippagePercent |-> 5 * PercentUnit, minBuyInterval |-> m,
   tokenWhitelist |-> l.tokenWhitelist, tokenBlacklist |-> l.tokenBlacklist,
   tokenFilter |-> f, autoBuy |-> a]

NoLists == [tokenWhitelist |-> {}, tokenBlacklist |-> {}]

\* Every interval with and without a custom filter; with the default interval,
\* every list, and autoBuy off.
SniperConfigs ==
  {SniperConfig(m, NoLists, f, TRUE) : m \in MinBuyIntervalChoices, f \in BOOLEAN}
  \cup {SniperConfig(DefaultMinBuyInterval, l, f, TRUE) :
          l \in ListChoices, f \in BOOLEAN}
  \cup {SniperConfig(DefaultMinBuyInterval, NoLists, f, FALSE) : f \in BOOLEAN}

NoGasParams == [token |-> "", amountIn |-> 0, amountOutMin |-> 0]

NoTrade ==
  [token |-> "", router |-> "", quoteRouter |-> "", quoteAmount |-> 0,
   amountIn |-> 0, amountOutMin |-> 0, gasParams |-> NoGasParams]

NoStats ==
  [totalEvents |-> 0, totalBuys |-> 0, successfulBuys |-> 0, failedBuys |-> 0,
   skippedBuys |-> 0]

Handler(token, pc) ==
  [token |-> token, pc |-> pc, router |-> "", quoteRouter |-> "", quoteAmount |-> 0,
   amountOutMin |-> 0, gasParams |-> NoGasParams]

\* The bot's fields that handling an event changes.
SnState ==
  [stats |-> stats, lastBuyTime |-> lastBuyTime, handlers |-> handlers,
   buys |-> snBuys, trade |-> snTrade, notified |-> snNotified]

SetSniper(st) ==
  /\ stats' = st.stats
  /\ lastBuyTime' = st.lastBuyTime
  /\ handlers' = st.handlers
  /\ snBuys' = st.buys
  /\ snTrade' = st.trade
  /\ snNotified' = st.notified

Skipped(st) == [st EXCEPT !.stats.skippedBuys = @ + 1]

Without(s, k) == [j \in 1..(Len(s) - 1) |-> IF j < k THEN s[j] ELSE s[j + 1]]

\* executeBuy up to its first await (getBalance); k = 0 for an invocation that
\* has not been suspended yet, else its place among the handlers.
executeBuy(st, token, k) ==
  LET begun == [st EXCEPT !.stats.totalBuys = @ + 1,
                          !.lastBuyTime = Now,
                          !.buys = Append(@, Now)]
  IN IF k = 0
     THEN [begun EXCEPT !.handlers = Append(@, Handler(token, "getBalance"))]
     ELSE [begun EXCEPT !.handlers[k] = Handler(token, "getBalance")]

\* handleCreateEvent after the custom filter (or without one).
AfterFilter(st, token, k) ==
  IF snConfig.autoBuy THEN executeBuy(st, token, k)
  ELSE IF k = 0 THEN st
  ELSE [st EXCEPT !.handlers = Without(@, k)]

\* A variant that asks the custom filter before the rate limit and the lists.
FilterBeforeLists(st, token) ==
  LET counted == [st EXCEPT !.stats.totalEvents = @ + 1]
  IN IF snConfig.tokenFilter
     THEN [counted EXCEPT !.handlers = Append(@, Handler(token, "filter"))]
     ELSE AfterFilter(counted, token, 0)

\* handleCreateEvent up to its first await.
handleCreateEvent(st, token) ==
  LET counted == [st EXCEPT !.stats.totalEvents = @ + 1]
  IN IF Now - st.lastBuyTime < OrElse(Given(snConfig.minBuyInterval), 1000)
     THEN Skipped(counted)
     ELSE IF snConfig.tokenWhitelist # {}
             /\ ToLower(token) \notin LowerSet(snConfig.tokenWhitelist)
     THEN Skipped(counted)
     ELSE IF snConfig.tokenBlacklist # {}
             /\ ToLower(token) \in LowerSet(snConfig.tokenBlacklist)
     THEN Skipped(counted)
     ELSE IF snConfig.tokenFilter
     THEN [counted EXCEPT !.handlers = Append(@, Handler(token, "filter"))]
     ELSE AfterFilter(counted, token, 0)

\* listeners.forEach(callback => callback(event)) over the bot's n listeners
RECURSIVE DispatchCreate(_, _, _)
DispatchCreate(st, token, n) ==
  IF n = 0 THEN st ELSE DispatchCreate(handleCreateEvent(st, token), token, n - 1)

\* The stream dispatches a Create event.
CreateEvent ==
  \E token \in Tokens :
    /\ snStarting = 0
    /\ snListeners > 0
    /\ Len(snEvents) < MaxEvents
    /\ Len(handlers) + snListeners <= MaxHandlers
    /\ snEvents' = Append(snEvents, [time |-> Now, token |-> token])
    /\ SetSniper(DispatchCreate(SnState, token, snListeners))
    /\ UNCHANGED <<snConfig, errorCallbacks, clock, snRunning, snStarting, snListeners,
                   snStreamRunning, snStarts, listed>>
    /\ UNCHANGED exceptSniper

\* await this.config.tokenFilter(event) resolves
FilterReturns ==
  \E k \in DOMAIN handlers, shouldBuy \in BOOLEAN :
    /\ snStarting = 0
    /\ handlers[k].pc = "filter"
    /\ SetSniper(IF shouldBuy THEN AfterFilter(SnState, handlers[k].token, k)
                 ELSE [Skipped(SnState) EXCEPT !.handlers = Without(@, k)])
    /\ UNCHANGED <<snConfig, errorCallbacks, clock, snRunning, snStarting, snListeners,
                   snStreamRunning, snEvents, snStarts, listed>>
    /\ UNCHANGED exceptSniper

\* await this.config.tokenFilter(event) rejects
FilterThrows ==
  \E k \in DOMAIN handlers :
    /\ snStarting = 0
    /\ handlers[k].pc = "filter"
    /\ SetSniper([Skipped(SnState) EXCEPT !.handlers = Without(@, k)])
    /\ UNCHANGED <<snConfig, errorCallbacks, clock, snRunning, snStarting, snListeners,
                   snStreamRunning, snEvents, snStarts, listed>>
    /\ UNCHANGED exceptSniper

NoneNotified == [called |-> <<>>, escaped |-> FALSE]

\* A variant without the try around each callback: the first one that throws
\* ends the forEach and its exception leaves executeBuy.
RECURSIVE CallUnguarded(_, _)
CallUnguarded(callbacks, j) ==
  IF j > Len(callbacks) THEN [called |-> <<>>, escaped |-> FALSE]
  ELSE IF callbacks[j] = "throws" THEN [called |-> <<j>>, escaped |-> TRUE]
  ELSE LET rest == CallUnguarded(callbacks, j + 1)
       IN [rest EXCEPT !.called = <<j>> \o @]

\* this.errorCallbacks.forEach(callback => { try { callback(...) } catch ... })
\* from callback j on: each one is called, and what it throws is caught.
RECURSIVE CallErrorCallbacks(_, _)
CallErrorCallbacks(callbacks, j) ==
  IF j > Len(callbacks) THEN [called |-> <<>>, escaped |-> FALSE]
  ELSE LET rest == CallErrorCallbacks(callbacks, j + 1)
       IN [rest EXCEPT !.called = <<j>> \o @]

\* executeBuy's catch
BuyFailed(st, k) ==
  [st EXCEPT !.stats.failedBuys = @ + 1, !.handlers = Without(@, k),
             !.notified = CallErrorCallbacks(errorCallbacks, 1)]

\* executeBuy once the call handler k awaits has returned v.
BuyAfterReturn(st, k, v) ==
  LET h == st.handlers[k]
  IN CASE h.pc = "getBalance" ->
            IF v < snConfig.buyAmount THEN BuyFailed(st, k)
            ELSE [st EXCEPT !.handlers[k].pc = "quote"]
       [] h.pc = "quote" ->
            LET quote == getAmountOut(h.token, snConfig.buyAmount, TRUE)
                min == calculateMinAmountOut(quote.amount, snConfig.slippagePercent)
            IN IF min.threw THEN BuyFailed(st, k)
               ELSE [st EXCEPT !.handlers[k] =
                       [h EXCEPT !.pc = "getGasPrice", !.router = quote.router,
                                 !.quoteRouter = quote.router,
                                 !.quoteAmount = quote.amount,
                                 !.amountOutMin = min.value]]
       [] h.pc = "getGasPrice" ->
            [st EXCEPT !.handlers[k] =
               [h EXCEPT !.pc = "estimateGas",
                         !.gasParams = [token |-> h.token,
                                        amountIn |-> snConfig.buyAmount,
                                        amountOutMin |-> h.amountOutMin]]]
       [] h.pc = "estimateGas" ->
            [st EXCEPT !.handlers[k].pc = "buy",
                       !.trade = [token |-> h.token, router |-> h.router,
                                  quoteRouter |-> h.quoteRouter,
                                  quoteAmount |-> h.quoteAmount,
                                  amountIn |-> snConfig.buyAmount,
                                  amountOutMin |-> h.amountOutMin,
                                  gasParams |-> h.gasParams]]
       [] OTHER -> st

SniperCalls == {"getBalance", "quote", "getGasPrice", "estimateGas"}

\* The call a buy attempt awaits returns.
BuyCallReturns ==
  \E k \in DOMAIN handlers :
    \E v \in ReturnValues(handlers[k].pc) :
      /\ snStarting = 0
      /\ handlers[k].pc \in SniperCalls
      /\ SetSniper(BuyAfterReturn(SnState, k, v))
      /\ UNCHANGED <<snConfig, errorCallbacks, clock, snRunning, snStarting, snListeners,
                     snStreamRunning, snEvents, snStarts, listed>>
      /\ UNCHANGED exceptSniper

\* The call a buy attempt awaits rejects.
BuyCallFails ==
  \E k \in DOMAIN handlers :
    /\ snStarting = 0
    /\ handlers[k].pc \in SniperCalls
    /\ SetSniper(BuyFailed(SnState, k))
    /\ UNCHANGED <<snConfig, errorCallbacks, clock, snRunning, snStarting, snListeners,
                   snStreamRunning, snEvents, snStarts, listed>>
    /\ UNCHANGED exceptSniper

\* this.trade.buy ends: with a hash (successfulBuys++) or by throwing.
BuyTradeEnds ==
  \E k \in DOMAIN handlers :
    \E sent \in BOOLEAN, receipt \in ReceiptStatuses \cup {"none"} :
      /\ snStarting = 0
      /\ handlers[k].pc = "buy"
      /\ ~sent => receipt = "none"
      /\ SetSniper(IF TradeEnd(sent, receipt) = "returned"
                   THEN [SnState EXCEPT !.stats.successfulBuys = @ + 1,
                                        !.handlers = Without(@, k)]
                   ELSE BuyFailed(SnState, k))
      /\ UNCHANGED <<snConfig, errorCallbacks, clock, snRunning, snStarting, snListeners,
                     snStreamRunning, snEvents, snStarts, listed>>
      /\ UNCHANGED exceptSniper

\* SniperBot.start up to `await this.stream.start()`: a listener is registered
\* and the stream started (a no-op on a running stream).
SniperStart ==
  /\ IF snRunning
     THEN UNCHANGED <<snListeners, snStreamRunning, snStarting, snStarts>>
     ELSE /\ snStarts < MaxStarts
          /\ snStarts' = snStarts + 1
          /\ snListeners' = snListeners + 1
          /\ snStreamRunning' = TRUE
          /\ snStarting' = snStarting + 1
  /\ UNCHANGED <<snConfig, errorCallbacks, clock, lastBuyTime, stats, handlers, snRunning, snBuys,
                 snTrade, snEvents, listed>>
  /\ UNCHANGED snNotified
  /\ UNCHANGED exceptSniper

\* SniperBot.start after the await: this.isRunning = true
SniperStartReturns ==
  /\ snStarting > 0
  /\ snStarting' = snStarting - 1
  /\ snRunning' = TRUE
  /\ UNCHANGED <<snConfig, errorCallbacks, clock, lastBuyTime, stats, handlers, snListeners,
                 snStreamRunning, snBuys, snTrade, snEvents, snStarts, listed>>
  /\ UNCHANGED snNotified
  /\ UNCHANGED exceptSniper

\* A variant of stop() that leaves the bot's listener on the stream.
SniperStopKeepsListener ==
  /\ IF ~snRunning
     THEN UNCHANGED <<snRunning, snListeners, snStreamRunning>>
     ELSE /\ snRunning' = FALSE
          /\ UNCHANGED <<snListeners, snStreamRunning>>
  /\ UNCHANGED <<snConfig, errorCallbacks, clock, lastBuyTime, stats, handlers,
                 snStarting, snBuys, snTrade, snEvents, snStarts, listed>>
  /\ UNCHANGED snNotified
  /\ UNCHANGED exceptSniper

\* A variant of stop() that starts the statistics afresh.
SniperStopResets ==
  /\ IF ~snRunning
     THEN UNCHANGED <<snRunning, snListeners, snStreamRunning, stats>>
     ELSE /\ snRunning' = FALSE
          /\ snListeners' = IF snStreamRunning THEN 0 ELSE snListeners
          /\ snStreamRunning' = FALSE
          /\ stats' = NoStats
  /\ UNCHANGED <<snConfig, errorCallbacks, clock, lastBuyTime, handlers, snStarting,
                 snBuys, snTrade, snEvents, snStarts, listed>>
  /\ UNCHANGED snNotified
  /\ UNCHANGED exceptSniper

\* SniperBot.stop: stream.stop() clears the stream's listeners.
SniperStop ==
  /\ IF ~snRunning
     THEN UNCHANGED <<snRunning, snListeners, snStreamRunning>>
     ELSE /\ snRunning' = FALSE
          /\ snListeners' = IF snStreamRunning THEN 0 ELSE snListeners
          /\ snStreamRunning' = FALSE
  /\ UNCHANGED <<snConfig, errorCallbacks, clock, lastBuyTime, stats, handlers, snStarting, snBuys,
                 snTrade, snEvents, snStarts, listed>>
  /\ UNCHANGED snNotified
  /\ UNCHANGED exceptSniper

\* Time passes.
Tick ==
  /\ snStarting = 0
  /\ clock < MaxTicks
  /\ clock' = clock + 1
  /\ UNCHANGED <<snConfig, errorCallbacks, lastBuyTime, stats, handlers, snRunning, snStarting,
                 snListeners, snStreamRunning, snBuys, snTrade, snEvents, snStarts,
                 listed>>
  /\ UNCHANGED snNotified
  /\ UNCHANGED exceptSniper

\* A token is listed while a buy attempt for it awaits its quote (the lens is
\* read by nothing else here).
SniperGraduate ==
  /\ snStarting = 0
  /\ \E k \in DOMAIN handlers : handlers[k].pc = "quote" /\ handlers[k].token \notin listed
  /\ \E token \in Tokens :
       /\ \E k \in DOMAIN handlers : handlers[k].pc = "quote" /\ handlers[k].token = token
       /\ GraduateToken(token)

SniperIdle ==
  /\ snConfig = [buyAmount |-> 1, slippagePercent |-> 5 * PercentUnit,
                 minBuyInterval |-> DefaultMinBuyInterval, tokenWhitelist |-> {},
                 tokenBlacklist |-> {}, tokenFilter |-> FALSE, autoBuy |-> TRUE]
  /\ clock = 0
  /\ lastBuyTime = 0
  /\ stats = NoStats
  /\ handlers = <<>>
  /\ snRunning = FALSE
  /\ snStarting = 0
  /\ snListeners = 0
  /\ snStreamRunning = FALSE
  /\ snBuys = <<>>
  /\ snTrade = NoTrade
  /\ snEvents = <<>>
  /\ snStarts = 0
  /\ errorCallbacks = <<>>
  /\ snNotified = NoneNotified

\* new SniperBot(config)
SniperInit ==
  /\ snConfig \in SniperConfigs
  /\ clock = 0
  /\ lastBuyTime = 0
  /\ stats = NoStats
  /\ handlers = <<>>
  /\ snRunning = FALSE
  /\ snStarting = 0
  /\ snListeners = 0
  /\ snStreamRunning = FALSE
  /\ snBuys = <<>>
  /\ snTrade = NoTrade
  /\ snEvents = <<>>
  /\ snStarts = 0
  /\ errorCallbacks = <<>>
  /\ snNotified = NoneNotified

(***************************************************************************)
(* Calls of the library's functions.                                       *)
(***************************************************************************)
NoLibCall == [fn |-> "none"]
NoAwait == [request |-> "none"]
NoResult == [outcome |-> "none"]

LibIdle ==
  /\ libCall = NoLibCall
  /\ libAwait = NoAwait
  /\ libResult = NoResult
  /\ nonces = [token \in Tokens |-> 0]
  /\ permits = {}
  /\ permitTxs = <<>>

(***************************************************************************)
(* estimateGas (trading/gas.ts).  The calldata encodeFunctionData builds   *)
(* is held as the function name and the argument record; an error is held  *)
(* as its class and its message.                                           *)
(***************************************************************************)
Wallet == "0xWALLET"

GasTypes == {"Buy", "Sell", "SellPermit"}

\* GasEstimationParams
GasParams ==
  [type : GasTypes, token : Tokens, amountIn : 1..MaxAmount,
   amountOutMin : 0..1, amountAllowance : {MaxAmount}, to : {Wallet},
   deadline : {9}, v : {27}, r : {"0xR"}, s : {"0xS"}]

\* What publicClient.estimateGas may answer: an estimate, or a rejection with a
\* revert error, a transport error, or a value that is not an Error.
GasAnswers ==
  [gas : {21, 90}]
  \cup [error : {[class |-> "ContractFunctionRevertedError", message |-> "reverted"],
                 [class |-> "HttpRequestError", message |-> "timeout"],
                 [class |-> "string", message |-> "boom"]}]

IsError(e) == e.class # "string"

estimateBuyGas(routerAddress, p) ==
  [to |-> routerAddress, account |-> p.to, value |-> Given(p.amountIn),
   data |-> [functionName |-> "buy",
             args |-> [amountOutMin |-> p.amountOutMin, token |-> p.token,
                       to |-> p.to, deadline |-> p.deadline]]]

estimateSellGas(routerAddress, p) ==
  [to |-> routerAddress, account |-> p.to, value |-> Undefined,
   data |-> [functionName |-> "sell",
             args |-> [amountIn |-> p.amountIn, amountOutMin |-> p.amountOutMin,
                       token |-> p.token, to |-> p.to, deadline |-> p.deadline]]]

estimateSellPermitGas(routerAddress, p) ==
  [to |-> routerAddress, account |-> p.to, value |-> Undefined,
   data |-> [functionName |-> "sellPermit",
             args |-> [amountIn |-> p.amountIn, amountOutMin |-> p.amountOutMin,
                       amountAllowance |-> p.amountAllowance, token |-> p.token,
                       to |-> p.to, deadline |-> p.deadline, v |-> p.v, r |-> p.r,
                       s |-> p.s]]]

\* estimateGas(publicClient, routerAddress, params): the request it suspends on.
GasRequest(routerAddress, params) ==
  CASE params.type = "Buy" -> estimateBuyGas(routerAddress, params)
    [] params.type = "Sell" -> estimateSellGas(routerAddress, params)
    [] params.type = "SellPermit" -> estimateSellPermitGas(routerAddress, params)

GasOperation(type) ==
  CASE type = "Buy" -> "buy" [] type = "Sell" -> "sell" [] type = "SellPermit" -> "sell permit"

\* A variant that answers a failed estimation with a flat default.
DefaultGasOnFailure(type, error) == [outcome |-> "returned", value |-> 300]

\* catch (error) { throw new Error(`Gas estimation failed for ... operation:
\* ${error instanceof Error ? error.message : 'Unknown error'}`) }
GasEstimationFailed(type, error) ==
  [outcome |-> "threw",
   error |-> [class |-> "Error",
              message |-> <<"Gas estimation failed for", GasOperation(type),
                            "operation:",
                            IF IsError(error) THEN error.message ELSE "Unknown error">>]]

\* estimateGas is called.
EstimateGas ==
  \E routerAddress \in Routers, params \in GasParams :
    /\ libCall = NoLibCall \/ libResult # NoResult
    /\ libCall' = [fn |-> "estimateGas", router |-> routerAddress, params |-> params]
    /\ libAwait' = [request |-> GasRequest(routerAddress, params), answered |-> FALSE]
    /\ libResult' = NoResult
    /\ UNCHANGED <<nonces, permits, permitTxs>>
    /\ UNCHANGED exceptLib

\* publicClient.estimateGas resolves or rejects.
EstimateGasEnds ==
  \E answer \in GasAnswers :
    /\ libCall.fn = "estimateGas"
    /\ libResult = NoResult
    /\ libAwait' = [request |-> libAwait.request, answered |-> TRUE, answer |-> answer]
    /\ libResult' = IF "gas" \in DOMAIN answer
                    THEN [outcome |-> "returned", value |-> answer.gas]
                    ELSE GasEstimationFailed(libCall.params.type, answer.error)
    /\ UNCHANGED <<libCall, nonces, permits, permitTxs>>
    /\ UNCHANGED exceptLib

(***************************************************************************)
(* Token.generatePermitSignature, and the token's permit as the router's   *)
(* sellPermit uses it on chain (EIP-2612).  A signature is held as the     *)
(* domain and message that were signed.                                    *)
(***************************************************************************)
MaxNonce == 2
MaxPermits == 2
MaxPermitTxs == 3

TokenName == "Token"

\* const message = { owner, spender, value, nonce, deadline }, signed under the
\* domain { name: tokenName, verifyingContract: token }.  A variant signs the
\* nonce after the one read.
PermitMessageNextNonce(owner, spender, value, nonce, deadline, token, tokenName) ==
  [owner |-> owner, spender |-> spender, value |-> value, nonce |-> nonce + 1,
   deadline |-> deadline, token |-> token, name |-> tokenName]

PermitMessage(owner, spender, value, nonce, deadline, token, tokenName) ==
  [owner |-> owner, spender |-> spender, value |-> value, nonce |-> nonce,
   deadline |-> deadline, token |-> token, name |-> tokenName]

\* generatePermitSignature(token, spender, value, deadline) up to
\* `await this.getNonce(token, ownerAddr)`
GeneratePermitSignature ==
  \E token \in Tokens, spender \in Routers :
    /\ libCall = NoLibCall \/ libResult # NoResult
    /\ Cardinality(permits) < MaxPermits
    /\ libCall' = [fn |-> "generatePermitSignature", token |-> token,
                   spender |-> spender, value |-> MaxAmount, deadline |-> 9,
                   owner |-> Wallet]
    /\ libAwait' = [request |-> "nonces"]
    /\ libResult' = NoResult
    /\ UNCHANGED <<nonces, permits, permitTxs>>
    /\ UNCHANGED exceptLib

\* readContract nonces(owner) returns the token's nonce as it is now.
NonceReturns ==
  /\ libCall.fn = "generatePermitSignature"
  /\ libAwait.request = "nonces"
  /\ libAwait' = [request |-> "name", nonce |-> nonces[libCall.token]]
  /\ UNCHANGED <<libCall, libResult, nonces, permits, permitTxs>>
  /\ UNCHANGED exceptLib

\* readContract name() returns, or fails and '' is used instead.
NameEnds ==
  \E tokenName \in {TokenName, ""} :
    /\ libCall.fn = "generatePermitSignature"
    /\ libAwait.request = "name"
    /\ libAwait' = [request |-> "signTypedData", nonce |-> libAwait.nonce,
                    tokenName |-> tokenName]
    /\ UNCHANGED <<libCall, libResult, nonces, permits, permitTxs>>
    /\ UNCHANGED exceptLib

\* walletClient.signTypedData returns: { v, r, s, nonce } is returned.
SignReturns ==
  /\ libCall.fn = "generatePermitSignature"
  /\ libAwait.request = "signTypedData"
  /\ LET signed == PermitMessage(libCall.owner, libCall.spender, libCall.value,
                                 libAwait.nonce, libCall.deadline, libCall.token,
                                 libAwait.tokenName)
     IN /\ libResult' = [outcome |-> "returned",
                         value |-> [signed |-> signed, nonce |-> libAwait.nonce]]
        /\ permits' = permits \cup {signed}
  /\ libAwait' = [request |-> "none", nonce |-> libAwait.nonce]
  /\ UNCHANGED <<libCall, nonces, permitTxs>>
  /\ UNCHANGED exceptLib

\* A call the signature generation awaits rejects (the name() call apart).
SignFails ==
  /\ libCall.fn = "generatePermitSignature"
  /\ libAwait.request \in {"nonces", "signTypedData"}
  /\ libResult' = [outcome |-> "threw"]
  /\ libAwait' = NoAwait
  /\ UNCHANGED <<libCall, nonces, permits, permitTxs>>
  /\ UNCHANGED exceptLib

\* The token's permit accepts a signature made by the owner for the token's
\* own domain over the owner's current nonce.
PermitAccepts(signed) ==
  /\ signed.name = TokenName
  /\ signed.nonce = nonces[signed.token]

\* A sellPermit transaction carrying a signature made so far is mined: the
\* router calls the token's permit, which uses up the nonce, and sells; the
\* transaction reverts as a whole when the permit is refused or the sale fails.
SellPermitMined ==
  \E signed \in permits, saleFails \in BOOLEAN :
    /\ Len(permitTxs) < MaxPermitTxs
    /\ LET success == PermitAccepts(signed) /\ ~saleFails
           after == IF success
                    THEN [nonces EXCEPT ![signed.token] = @ + 1]
                    ELSE nonces
       IN /\ nonces' = after
          /\ permitTxs' = Append(permitTxs,
                                 [signed |-> signed, success |-> success,
                                  nonceAfter |-> after[signed.token]])
    /\ UNCHANGED <<libCall, libAwait, libResult, permits>>
    /\ UNCHANGED exceptLib

\* The owner's nonce is used up by a permit made elsewhere.
OtherPermit ==
  \E token \in Tokens :
    /\ nonces[token] < MaxNonce
    /\ nonces' = [nonces EXCEPT ![token] = @ + 1]
    /\ UNCHANGED <<libCall, libAwait, libResult, permits, permitTxs>>
    /\ UNCHANGED exceptLib

(***************************************************************************)
(* findPoolsForTokens (stream/dex/stream.ts, the Stream's and the          *)
(* Indexer's copy are the same but for the transport).                     *)
(***************************************************************************)
MaxTokenList == 3

WMON == "0xC0dE"
ZeroAddress == "0x0000"
NADS_FEE_TIER == "fee"

\* The order of lower-case address strings under <.
AddressRank(lower) ==
  CASE lower = "0xabc1" -> 1
    [] lower = "0xc0de" -> 2
    [] lower = "0xdef2" -> 3

DiscoveryTokens == {TokA, "0xDEF2", WMON, "0xC0DE"}

TokenLists == UNION {[1..n -> DiscoveryTokens] : n \in 1..MaxTokenList}

\* What the factory's getPool may answer.
FactoryAnswers == {Pool1, Pool2, ZeroAddress}

IsWMON(tokenAddress) == ToLower(tokenAddress) = ToLower(WMON)

\* const [token0, token1] = tokenAddress.toLowerCase() < wmonAddress.toLowerCase()
\*   ? [tokenAddress, wmonAddress] : [wmonAddress, tokenAddress]
PairFor(tokenAddress) ==
  IF AddressRank(ToLower(tokenAddress)) < AddressRank(ToLower(WMON))
  THEN <<tokenAddress, WMON, NADS_FEE_TIER>>
  ELSE <<WMON, tokenAddress, NADS_FEE_TIER>>

\* The for loop from token i on, up to the next readContract or the return.
RECURSIVE FindFrom(_, _)
FindFrom(st, i) ==
  IF i > Len(st.tokens)
  THEN [await |-> [st EXCEPT !.request = "none", !.i = i],
        result |-> [outcome |-> "returned", value |-> st.pools]]
  ELSE IF IsWMON(st.tokens[i]) THEN FindFrom(st, i + 1)
  ELSE [await |-> [st EXCEPT !.request = "getPool", !.i = i,
                             !.args = PairFor(st.tokens[i])],
        result |-> NoResult]

\* A variant without the try inside the loop: a failed lookup ends the call.
LookupFailedAborts(st) ==
  [await |-> [st EXCEPT !.request = "none",
                        !.lookups = Append(@, [i |-> st.i, args |-> st.args,
                                               answer |-> "rejected"])],
   result |-> [outcome |-> "threw"]]

\* catch (error) { console.error(...) }: on to the next token
LookupFailed(st) ==
  FindFrom([st EXCEPT !.lookups = Append(@, [i |-> st.i, args |-> st.args,
                                              answer |-> "rejected"])],
           st.i + 1)

\* if (poolAddress && poolAddress !== '0x00..00') poolAddresses.push(poolAddress)
LookupReturned(st, poolAddress) ==
  FindFrom([st EXCEPT !.lookups = Append(@, [i |-> st.i, args |-> st.args,
                                              answer |-> poolAddress]),
                      !.pools = IF poolAddress # ZeroAddress
                                THEN Append(@, poolAddress) ELSE @],
           st.i + 1)

SetFind(next) ==
  /\ libAwait' = next.await
  /\ libResult' = next.result

\* findPoolsForTokens(rpcUrl, tokenAddresses) is called.
FindPoolsForTokens ==
  \E tokenAddresses \in TokenLists :
    /\ libCall = NoLibCall \/ libResult # NoResult
    /\ libCall' = [fn |-> "findPoolsForTokens", tokenAddresses |-> tokenAddresses]
    /\ SetFind(FindFrom([request |-> "none", i |-> 1, args |-> <<>>,
                         tokens |-> tokenAddresses, pools |-> <<>>,
                         lookups |-> <<>>], 1))
    /\ UNCHANGED <<nonces, permits, permitTxs>>
    /\ UNCHANGED exceptLib

\* client.readContract getPool returns.
GetPoolReturns ==
  \E poolAddress \in FactoryAnswers :
    /\ libCall.fn = "findPoolsForTokens"
    /\ libAwait.request = "getPool"
    /\ SetFind(LookupReturned(libAwait, poolAddress))
    /\ UNCHANGED <<libCall, nonces, permits, permitTxs>>
    /\ UNCHANGED exceptLib

\* client.readContract getPool rejects.
GetPoolFails ==
  /\ libCall.fn = "findPoolsForTokens"
  /\ libAwait.request = "getPool"
  /\ SetFind(LookupFailed(libAwait))
  /\ UNCHANGED <<libCall, nonces, permits, permitTxs>>
  /\ UNCHANGED exceptLib

(***************************************************************************)
(* The curve stream module's copy of sortEventsChronologically, and calls  *)
(* of either copy on an array of events.                                   *)
(***************************************************************************)
MaxSortLen == 3

CurveCompare(a, b) ==
  IF a.blockNumber # b.blockNumber THEN a.blockNumber - b.blockNumber
  ELSE IF a.transactionIndex # b.transactionIndex
       THEN a.transactionIndex - b.transactionIndex
       ELSE a.logIndex - b.logIndex

RECURSIVE CurveInsertSorted(_, _)
CurveInsertSorted(sorted, e) ==
  IF sorted = <<>> THEN <<e>>
  ELSE IF CurveCompare(Head(sorted), e) <= 0
       THEN <<Head(sorted)>> \o CurveInsertSorted(Tail(sorted), e)
       ELSE <<e>> \o sorted

RECURSIVE CurveSortFrom(_, _)
CurveSortFrom(sorted, rest) ==
  IF rest = <<>> THEN sorted
  ELSE CurveSortFrom(CurveInsertSorted(sorted, Head(rest)), Tail(rest))

CurveSortEventsChronologically(events) == CurveSortFrom(<<>>, events)

\* Events that differ in what the order looks at, and events that differ only
\* in what it does not look at.
SortableEvents ==
  [blockNumber : 1..2, transactionIndex : 0..1, logIndex : 0..1, type : {"Buy", "Sell"}]

EventArrays == UNION {[1..n -> SortableEvents] : n \in 0..MaxSortLen}

\* An array of events on which no sort has been called yet.
SortInit ==
  /\ libCall \in {[fn |-> "sortEventsChronologically", events |-> events, sorts |-> 0] :
                    events \in EventArrays}
  /\ libAwait = NoAwait
  /\ libResult = NoResult
  /\ nonces = [token \in Tokens |-> 0]
  /\ permits = {}
  /\ permitTxs = <<>>

\* events.sort(...) sorts the array in place and returns it.
Sorted(copy, events) ==
  IF copy = "dex" THEN sortEventsChronologically(events)
  ELSE CurveSortEventsChronologically(events)

SortCall(copy) ==
  /\ libCall.fn = "sortEventsChronologically"
  /\ libCall.sorts < 2
  /\ libResult' = [outcome |-> "returned", value |-> Sorted(copy, libCall.events),
                   given |-> libCall.events, copy |-> copy]
  /\ libCall' = [libCall EXCEPT !.events = Sorted(copy, libCall.events),
                                !.sorts = @ + 1]
  /\ UNCHANGED <<libAwait, nonces, permits, permitTxs>>
  /\ UNCHANGED exceptLib

SortDex == SortCall("dex")

SortCurve == SortCall("curve")

(***************************************************************************)
(* Calls of calculateMinAmountOut and calculateMaxAmountIn.                *)
(***************************************************************************)
SlippageAmounts == {0, 1, 100, 9999, 10000, 12345}

\* -1.0, -0.001, 0, 0.29, 0.5, 1.15, 5.0, 5.005, 99.99, 99.999, 100.0, 150.0
SlippagePercents ==
  {-1000, -1, 0, 290, 500, 1150, 5000, 5005, 99990, 99999, 100000, 150000}

SlippageInit ==
  /\ libCall \in [fn : {"calculateMinAmountOut", "calculateMaxAmountIn"},
                  amount : SlippageAmounts, slippagePercent : SlippagePercents]
  /\ libAwait = NoAwait
  /\ libResult = NoResult
  /\ nonces = [token \in Tokens |-> 0]
  /\ permits = {}
  /\ permitTxs = <<>>

\* The call runs: it returns a bigint or throws.
Calculate ==
  /\ libCall.fn \in {"calculateMinAmountOut", "calculateMaxAmountIn"}
  /\ libResult = NoResult
  /\ LET r == IF libCall.fn = "calculateMinAmountOut"
              THEN calculateMinAmountOut(libCall.amount, libCall.slippagePercent)
              ELSE calculateMaxAmountIn(libCall.amount, libCall.slippagePercent)
     IN libResult' = IF r.threw THEN [outcome |-> "threw"]
                     ELSE [outcome |-> "returned", value |-> r.value]
  /\ UNCHANGED <<libCall, libAwait, nonces, permits, permitTxs>>
  /\ UNCHANGED exceptLib

\* The chain and Indexer variables while another component is looked at.
IdxUnused ==
  /\ chain = {}
  /\ head = 0
  /\ idxKind = "curve"
  /\ idxPools = <<>>
  /\ IdxIdle

\* The bots and Trade while another component is looked at.
BotsIdle == LensIdle /\ TradeIdle /\ LibIdle /\ BundlerIdle /\ SniperIdle

InitIndexer == IdxInit /\ StrIdle /\ BotsIdle

NextIndexer ==
  \/ FetchAllEvents
  \/ FaGetBlockNumber
  \/ FaFetchReturn
  \/ FaFail
  \/ AdvanceHead

SpecIndexer == InitIndexer /\ [][NextIndexer]_vars

\* The Indexer when every awaited call returns: no call rejects, and a call
\* that is awaited does return.
NextIndexerReturning ==
  \/ FetchAllEvents
  \/ FaGetBlockNumber
  \/ FaFetchReturn
  \/ AdvanceHead

\* Whether the call returns does not depend on which logs the blocks hold:
\* the chain is empty or holds one log.
InitIndexerReturning ==
  /\ InitIndexer
  /\ chain \in {{}, IF idxKind = "curve" THEN {LogCreate} ELSE {LogSwap1}}

SpecIndexerReturning ==
  /\ InitIndexerReturning
  /\ [][NextIndexerReturning]_vars
  /\ WF_vars(FaGetBlockNumber)
  /\ WF_vars(FaFetchReturn)

InitStream == CurveStreamInit /\ IdxUnused /\ BotsIdle

NextStream ==
  \/ RegisterListener
  \/ Unsubscribe
  \/ RemoveAllListeners
  \/ SubscribeEvents
  \/ FilterTokens
  \/ CurveStart
  \/ CurveStop
  \/ OnLogs
  \/ OnError
  \/ GetBlockReturns
  \/ GetBlockFails

SpecStream == InitStream /\ [][NextStream]_vars

InitDex == DexStreamInit /\ IdxUnused /\ BotsIdle

NextDex ==
  \/ RegisterListener
  \/ Unsubscribe
  \/ RemoveAllListeners
  \/ DexStart
  \/ DexStop
  \/ AddPoolAddresses
  \/ RemovePoolAddresses
  \/ OnLogs
  \/ OnError
  \/ GetBlockReturns
  \/ GetBlockFails

SpecDex == InitDex /\ [][NextDex]_vars

\* Either Stream class.
InitStreams == InitStream \/ InitDex

NextStreams == NextStream \/ NextDex

SpecStreams == InitStreams /\ [][NextStreams]_vars

\* Either Stream class with batches that overlap.
NextDelivery ==
  \/ RegisterListener
  \/ CurveStart
  \/ DexStart
  \/ OnLogsOverlapping
  \/ GetBlockReturns
  \/ GetBlockFails

SpecDelivery == InitStreams /\ [][NextDelivery]_vars

InitTrade ==
  IdxUnused /\ StrIdle /\ LensIdle /\ TradeIdle /\ LibIdle /\ BundlerIdle /\ SniperIdle

NextTrade ==
  \/ TradeCall
  \/ SendTransactionReturns
  \/ SendTransactionFails
  \/ ReceiptReturns
  \/ ReceiptFails

SpecTrade == InitTrade /\ [][NextTrade]_vars

InitBundler ==
  IdxUnused /\ StrIdle /\ LensInit /\ TradeIdle /\ LibIdle /\ BundlerInit /\ SniperIdle

NextBundler ==
  \/ Execute
  \/ CallReturns
  \/ CallFails
  \/ TradeEnds
  \/ ConfirmReturns
  \/ ConfirmFails
  \/ BundlerGraduate

SpecBundler == InitBundler /\ [][NextBundler]_vars

\* The tokens of Create events are new: none is listed yet.
InitSniper ==
  IdxUnused /\ StrIdle /\ LensIdle /\ TradeIdle /\ LibIdle /\ BundlerIdle /\ SniperInit

NextSniper ==
  \/ SniperStart
  \/ SniperStartReturns
  \/ SniperStop
  \/ CreateEvent
  \/ FilterReturns
  \/ FilterThrows
  \/ BuyCallReturns
  \/ BuyCallFails
  \/ BuyTradeEnds
  \/ Tick
  \/ SniperGraduate

SpecSniper == InitSniper /\ [][NextSniper]_vars

\* The error callbacks registered with onBuyError before the bot is started.
ErrorCallbackChoices == {<<"returns">>, <<"throws", "returns">>}

\* new SniperBot(config) followed by onBuyError calls
SniperRegistered ==
  /\ snConfig \in {SniperConfig(DefaultMinBuyInterval, NoLists, f, TRUE) : f \in BOOLEAN}
  /\ errorCallbacks \in ErrorCallbackChoices
  /\ clock = 0
  /\ lastBuyTime = 0
  /\ stats = NoStats
  /\ handlers = <<>>
  /\ snRunning = FALSE
  /\ snStarting = 0
  /\ snListeners = 0
  /\ snStreamRunning = FALSE
  /\ snBuys = <<>>
  /\ snTrade = NoTrade
  /\ snEvents = <<>>
  /\ snStarts = 0
  /\ snNotified = NoneNotified

\* Either bot: a run drives the SniperBot with its error callbacks, or the
\* BundlerBot.
InitBots ==
  \/ InitBundler
  \/ IdxUnused /\ StrIdle /\ LensIdle /\ TradeIdle /\ LibIdle /\ BundlerIdle
     /\ SniperRegistered

NextBots ==
  \/ errorCallbacks = <<>> /\ NextBundler
  \/ errorCallbacks # <<>> /\ NextSniper

SpecBots == InitBots /\ [][NextBots]_vars

InitGas == IdxUnused /\ StrIdle /\ BotsIdle

NextGas ==
  \/ EstimateGas
  \/ EstimateGasEnds

SpecGas == InitGas /\ [][NextGas]_vars

InitPermit == IdxUnused /\ StrIdle /\ BotsIdle

NextPermit ==
  \/ GeneratePermitSignature
  \/ NonceReturns
  \/ NameEnds
  \/ SignReturns
  \/ SignFails
  \/ SellPermitMined
  \/ OtherPermit

SpecPermit == InitPermit /\ [][NextPermit]_vars

InitDiscovery == IdxUnused /\ StrIdle /\ BotsIdle

NextDiscovery ==
  \/ FindPoolsForTokens
  \/ GetPoolReturns
  \/ GetPoolFails

SpecDiscovery == InitDiscovery /\ [][NextDiscovery]_vars

InitSort == IdxUnused /\ StrIdle /\ LensIdle /\ TradeIdle /\ BundlerIdle /\ SniperIdle /\ SortInit

NextSort ==
  \/ SortDex
  \/ SortCurve

SpecSort == InitSort /\ [][NextSort]_vars

InitSlippage ==
  IdxUnused /\ StrIdle /\ LensIdle /\ TradeIdle /\ BundlerIdle /\ SniperIdle /\ SlippageInit

NextSlippage == Calculate

SpecSlippage == InitSlippage /\ [][NextSlippage]_vars

(***************************************************************************)
(* Claims about the Indexer.                                               *)
(***************************************************************************)
\* C1: when fetchAllEvents(start, batchSize) returns, its result is the same
\* sequence of events, in the same order, as one fetchEvents(start, head) call
\* with the same filters, head being the block number read at its start; for
\* every start, head and batchSize >= 1, curve and DEX.
C1_BatchedEqualsSingleFetch ==
  faPc = "done" => faResult = FetchEvents(faStart, faTarget, faTypes, faTokens)

\* A call that returned events of two different batches.
C1_Witness ==
  /\ faPc = "done"
  /\ Len(faQueries) >= 2
  /\ Len(faResult) >= 2
  /\ faResult[1].blockNumber <= faQueries[1][2]
  /\ faResult[Len(faResult)].blockNumber >= faQueries[Len(faQueries)][1]

\* C10: the ranges fetchAllEvents queries are [cursor, min(cursor+batchSize-1,
\* head)]: the first starts at startBlock, consecutive ranges are adjacent (no
\* gap, no overlap), none extends past the head captured at the start, also
\* when the chain head advances during the call, and the last ends at it.
C10_RangesTileStartToHead ==
  /\ faQueries # <<>> => faQueries[1][1] = faStart
  /\ \A i \in DOMAIN faQueries :
       /\ faQueries[i][1] <= faQueries[i][2]
       /\ faQueries[i][2] = Min(faQueries[i][1] + faBatch - 1, faTarget)
       /\ faQueries[i][2] <= faTarget
       /\ i > 1 => faQueries[i][1] = faQueries[i - 1][2] + 1
  /\ (faPc = "done" /\ faStart <= faTarget) =>
       /\ faQueries # <<>>
       /\ faQueries[Len(faQueries)][2] = faTarget

\* A call of several batches, the last one clamped to the captured head, that
\* returned after the chain head moved on.
C10_Witness ==
  /\ faPc = "done"
  /\ Len(faQueries) >= 2
  /\ head > faTarget
  /\ faQueries[Len(faQueries)][2] - faQueries[Len(faQueries)][1] + 1 < faBatch

(***************************************************************************)
(* Claims about the Streams.                                               *)
(***************************************************************************)
\* C6: after stop() has returned and until the next start(), no listener
\* callback is invoked: a log processed while the stream is not running is
\* delivered to nobody, even to a listener registered after stop().
C6_NoCallbackWhileStopped ==
  last.receivers # <<>> => last.running

\* C7: when callbacks add or remove listeners during a dispatch (none of them
\* throwing), the listeners that receive the event are exactly those that were
\* registered when the dispatch began.
C7_ReceiversAreThoseAtDispatchStart ==
  (last.dispatched /\ ~last.threw) =>
    {last.receivers[k] : k \in DOMAIN last.receivers} = last.before

\* C8: a decoded bonding-curve event passes the stream's event-type filter
\* exactly when its on-chain kind is one of the selected CurveEventType values;
\* in particular Listed events pass when all six kinds are selected.
C8_TypeFilterSelectsOnChainKind ==
  last.parsed => (last.typeOk <=> last.log.topic \in last.types)

\* C9: while the DEX Stream is running there is exactly one live subscription
\* for each monitored pool address and none for any other address.
C9_OneSubscriptionPerMonitoredPool ==
  isRunning =>
    \A a \in {Pool1, Pool2} :
      Cardinality({x \in subs : x.address = a}) =
        (IF a \in Range(poolAddresses) THEN 1 ELSE 0)

(***************************************************************************)
(* Claims about Trade and the bots.                                        *)
(***************************************************************************)
\* C2: execute(operations) returns exactly one result per input operation, in
\* input order, whatever the outcome of each step, a failure while waiting
\* for a confirmation included.
C2_OneResultPerOperation ==
  bPc = "done" =>
    /\ Len(bResults) = Len(bOps)
    /\ \A i \in DOMAIN bResults : bResults[i].operation = i

\* C3: any two buy attempts of SniperBot begin at least minBuyInterval apart,
\* also when events arrive while an earlier one awaits the custom filter.
C3_BuyAttemptsAtLeastIntervalApart ==
  \A i, j \in DOMAIN snBuys :
    i < j => snBuys[j] - snBuys[i] >= OrElse(Given(snConfig.minBuyInterval), 1000)

\* C4: Trade.buy / sell / sellPermit return the transaction hash only for a
\* transaction whose mined receipt reports success; a revert is a failure.
C4_ReturnedHashMeansSuccess ==
  trPc = "returned" => trReceipt = "success"

\* C5: every trade a bot submits goes to the router returned by the quote that
\* produced its amountOutMin, also when the token is listed between two lens
\* calls of the operation.
C5_TradeGoesToQuoteRouter ==
  /\ \A k \in DOMAIN bCalls :
       bCalls[k].name \in TradeMethods => bCalls[k].router = bCalls[k].quoteRouter
  /\ snTrade.router = snTrade.quoteRouter

\* C11: once a sub-fetch of fetchAllEvents has failed, the call has ended by
\* throwing: it returns no event list (not even the events already gathered),
\* the failed range is not queried again and no later range is queried.
C11_FailurePropagates ==
  [][/\ faRejected' => (faPc' = "failed" /\ faResult' = <<>>)
     /\ faRejected => UNCHANGED <<faQueries, faAll, faPc, faResult>>]_vars

\* The second batch failed after the first had brought events, with blocks
\* still to fetch.
C11_Witness ==
  /\ faRejected
  /\ Len(faQueries) = 2
  /\ faAll # <<>>
  /\ faQueries[2][2] < faTarget

\* C12: when every sub-fetch returns, a fetchAllEvents call returns, for any
\* startBlock and batchSize >= 1; and a call whose startBlock is greater than
\* the captured head issues no log query and returns an empty sequence.
C12_ReturnsWhenFetchesReturn ==
  /\ (faPc = "head") ~> (faPc = "done")
  /\ [](faPc \in {"fetch", "done"} /\ faStart > faTarget =>
          faPc = "done" /\ faQueries = <<>> /\ faResult = <<>>)

\* A call that returned after three batches of one block.
C12_Witness ==
  /\ faPc = "done"
  /\ faBatch = 1
  /\ Len(faQueries) >= 3

\* C13: the curve Stream calls a listener for an event only if the decoded
\* event's type is one of the stream's event types and, when a non-empty token
\* filter is set, the event's token in lower case is in the filter; an event
\* that fails either test is delivered to no listener.
C13_ListenersGetOnlyFilteredEvents ==
  (strKind = "curve" /\ last.receivers # <<>>) =>
    LET parsedEvent == parseBondingCurveEvent(last.log, Timestamp(last.log))
    IN /\ parsedEvent # <<>>
       /\ parsedEvent[1].type \in eventTypes
       /\ (tokenFilter.given /\ tokenFilter.list # {}) =>
            ToLower(parsedEvent[1].token) \in tokenFilter.list

\* An event whose token is written in mixed case was delivered under a token
\* filter, with two listeners registered.
C13_Witness ==
  /\ strKind = "curve"
  /\ Len(last.receivers) = 2
  /\ tokenFilter.given
  /\ tokenFilter.list # {}
  /\ last.log.token # ToLower(last.log.token)

\* C14: start() on a stream that is already running does nothing: no
\* subscription is created and the listeners, the filters, the pool list and
\* the run state are left as they were (curve and DEX streams).
C14_StartWhileRunningIsNoOp ==
  [][((CurveStart \/ DexStart) /\ isRunning) =>
       UNCHANGED <<subs, watchFn, watchFunctions, listeners, eventTypes, tokenFilter,
                   poolAddresses, isRunning, reconnectAttempts, tasks>>]_vars

\* A running stream with a listener and as many subscriptions as one start()
\* creates, where a second start() could still create more.
C14_Witness ==
  /\ isRunning
  /\ listeners # <<>>
  /\ subs # {}
  /\ Cardinality(subs) + (IF strKind = "curve" THEN 1 ELSE Len(poolAddresses)) <= MaxSubs
  /\ ENABLED (CurveStart \/ DexStart)

\* C15: stop() on a running stream leaves it idle (isStreaming() is false), with
\* every subscription it created released and none still held, and with no
\* listener (curve and DEX streams).
C15_StopReleasesEverything ==
  [][((CurveStop \/ DexStop) /\ isRunning) =>
       /\ isRunning' = FALSE
       /\ listeners' = <<>>
       /\ subs' = {}
       /\ watchFn' = 0
       /\ watchFunctions' = <<>>]_vars

\* A run without the note of who is ahead of it.
Run(t) == [logs |-> t.logs, i |-> t.i, pool |-> t.pool]

Runs(ts) == [j \in DOMAIN ts |-> Run(ts[j])]

\* C16: within a delivered batch, whatever happens while log i is processed
\* (getBlock rejects, the log does not decode, a listener throws), the run goes
\* on to the next log of the batch that it has to look up, or ends if there is
\* none, and isRunning is left as it was.
C16_BatchGoesOnAfterFailure ==
  [][(GetBlockReturns \/ GetBlockFails) =>
       /\ isRunning' = isRunning
       /\ \E k \in DOMAIN tasks :
            LET t == tasks[k]
                rest == {j \in (t.i + 1)..Len(t.logs) :
                           strKind = "curve" \/ t.logs[j].topic \in SWAP_EVENT_ABI}
            IN IF rest = {}
               THEN /\ Len(tasks') = Len(tasks) - 1
                    /\ \A j \in DOMAIN tasks' :
                         Run(tasks'[j]) = Run(IF j < k THEN tasks[j] ELSE tasks[j + 1])
               ELSE Runs(tasks') =
                      Runs([tasks EXCEPT ![k].i = CHOOSE j \in rest :
                                                    \A m \in rest : j <= m])]_vars

\* The second log of a batch was dispatched, and a listener threw on it, after
\* the first log of the batch failed to decode.
C16_Witness ==
  /\ last.log = LogSell
  /\ last.receivers # <<>>
  /\ last.threw

\* C17: a SniperBot with minBuyInterval = 1000 ms, started once, that has
\* handled two Create events 500 ms apart, both for tokens that pass every
\* filter, has counted two events, made exactly one buy attempt and skipped
\* exactly once.  (No buy attempt at all means that the custom filter turned
\* the first event down, which is not the case described.)
C17_TwoEventsHalfASecondApart ==
  (/\ snStarts = 1
   /\ snConfig.minBuyInterval = 1000
   /\ snConfig.autoBuy
   /\ Len(snEvents) = 2
   /\ snEvents[2].time - snEvents[1].time = 500
   /\ \A e \in DOMAIN snEvents :
        /\ snConfig.tokenWhitelist # {} =>
             ToLower(snEvents[e].token) \in LowerSet(snConfig.tokenWhitelist)
        /\ ToLower(snEvents[e].token) \notin LowerSet(snConfig.tokenBlacklist)
   /\ \A k \in DOMAIN handlers : handlers[k].pc # "filter")
  => /\ stats.totalEvents = 2
     /\ \/ stats.totalBuys = 1 /\ stats.skippedBuys = 1
        \/ stats.totalBuys = 0

C19_OperationsOneAtATime ==
  \A l \in DOMAIN bCalls :
    \A i \in 1..(bCalls[l].i - 1) :
      /\ \E r \in DOMAIN bResults : bResults[r].operation = i
      /\ \A k \in DOMAIN bCalls : bCalls[k].i = i => k < l
      /\ bConfig.waitForConfirmation =>
           \A k \in DOMAIN bCalls : (bCalls[k].i = i /\ bCalls[k].sent) => bCalls[k].mined

\* C20: execute attempts every operation of the list, however the earlier ones
\* ended, and returns: when it has returned, every operation has a result, and
\* every buy, sell and sellPermit operation had its first chain call issued.
C20_EveryOperationAttempted ==
  /\ bPc \in {"idle", "done", "confirm"} \cup BundlerCalls \cup TradeMethods
  /\ bPc = "done" =>
       \A i \in DOMAIN bOps :
         /\ \E r \in DOMAIN bResults : bResults[r].operation = i
         /\ bOps[i].type \in TradeMethods => \E k \in DOMAIN bCalls : bCalls[k].i = i

\* execute returned after a first operation that failed once its transaction
\* was submitted and a second operation that succeeded.
C20_Witness ==
  /\ bPc = "done"
  /\ Len(bOps) = 2
  /\ bResults[1].operation = 1
  /\ ~bResults[1].success
  /\ \E k \in DOMAIN bCalls : bCalls[k].i = 1 /\ bCalls[k].sent
  /\ bResults[Len(bResults)].operation = 2
  /\ bResults[Len(bResults)].success

\* The calls of operation i named name, by their place in bCalls.
CallsOf(i, name) == {k \in DOMAIN bCalls : bCalls[k].i = i /\ bCalls[k].name = name}

\* C21: for a plain sell whose sell transaction has been submitted, an approve
\* was sent exactly when the allowance read for the resolved router was below
\* amountIn, and then it was for that router and had returned, mined, before
\* the sell call; a sell or sellPermit whose balance was read below amountIn
\* issues no later call (no approve, no trade) and has a failure recorded;
\* a sellPermit operation never has an approve call.
C21_ApproveOnlyWhenNeeded ==
  \A i \in DOMAIN bOps :
    /\ \A s \in CallsOf(i, "sell") :
         /\ CallsOf(i, "getAllowance") # {}
         /\ \A a \in CallsOf(i, "getAllowance") :
              /\ a < s
              /\ bCalls[a].router = bCalls[s].router
              /\ (bCalls[a].value < bOps[i].amountIn) <=> (CallsOf(i, "approve") # {})
         /\ \A p \in CallsOf(i, "approve") :
              /\ p < s
              /\ bCalls[p].router = bCalls[s].router
              /\ bCalls[p].sent
              /\ bCalls[p].mined
    /\ bOps[i].type \in {"sell", "sellPermit"} =>
         \A b \in CallsOf(i, "getBalance") :
           (bCalls[b].value # -1 /\ bCalls[b].value < bOps[i].amountIn) =>
             /\ \A k \in DOMAIN bCalls : bCalls[k].i = i => k <= b
             /\ \E r \in DOMAIN bResults :
                  bResults[r].operation = i /\ ~bResults[r].success
    /\ bOps[i].type = "sellPermit" => CallsOf(i, "approve") = {}

\* A sell was submitted after an approve that the allowance made necessary, and
\* an earlier sell of the same run ended at its balance check.
C21_Witness ==
  /\ Len(bOps) = 2
  /\ CallsOf(2, "sell") # {}
  /\ CallsOf(2, "approve") # {}
  /\ bOps[1].type = "sell"
  /\ \E b \in CallsOf(1, "getBalance") : bCalls[b].value = 0

\* C22: with waitForConfirmation = false the bot starts the next operation
\* without waiting for the previous operation's transaction to be confirmed:
\* no operation is started after a trade call of an earlier operation that
\* submitted a transaction and stayed suspended until its receipt was obtained.
C22_NoWaitStartsNextAtOnce ==
  ~bConfig.waitForConfirmation =>
    \A k \in DOMAIN bCalls :
      (/\ bCalls[k].name \in TradeMethods
       /\ bCalls[k].sent
       /\ \E l \in DOMAIN bCalls : bCalls[l].i > bCalls[k].i)
      => ~bCalls[k].mined

\* C23: a call of Trade.buy, sell or sellPermit submits at most one transaction,
\* built for the named router function and addressed to the given router; it
\* returns the hash of that one transaction, and only once its receipt has been
\* obtained; a call that fails returns no hash and has not submitted a second
\* transaction.
C23_OneTransactionPerCall ==
  /\ Len(trSent) <= 1
  /\ \A k \in DOMAIN trSent :
       /\ trSent[k].to = trCall.router
       /\ trSent[k].functionName = trCall.method
  /\ trPc = "send" => trSent = <<>>
  /\ trPc = "returned" =>
       /\ Len(trSent) = 1
       /\ trReceipt \in ReceiptStatuses
       /\ trReturn = 1
  /\ trPc # "returned" => trReturn = 0

\* A sellPermit call to the DEX router failed while waiting for the receipt of
\* the transaction it had submitted.
C23_Witness ==
  /\ trPc = "threw"
  /\ Len(trSent) = 1
  /\ trCall.method = "sellPermit"
  /\ trCall.router = DEX_ROUTER

\* The buy attempts that are inside executeBuy.
InBuy(hs) == Cardinality({k \in DOMAIN hs : hs[k].pc \in SniperCalls \cup {"buy"}})

\* Call k of the bundle has ended.
CallEnded(k) == k < Len(bCalls) \/ bPc \in {"idle", "done"}

\* Call k of the bundle ended by throwing.
CallThrew(k) ==
  /\ CallEnded(k)
  /\ IF bCalls[k].name \in TradeMethods THEN ~(bCalls[k].sent /\ bCalls[k].mined)
     ELSE bCalls[k].value = -1

C24_BundlerRecords ==
  \A k \in DOMAIN bCalls :
    CallThrew(k) =>
      \E r \in DOMAIN bResults :
        /\ bResults[r].operation = bCalls[k].i
        /\ ~bResults[r].success
        /\ bResults[r].error

C24_SniperRecords ==
  /\ stats'.failedBuys \in {stats.failedBuys, stats.failedBuys + 1}
  /\ stats'.failedBuys > stats.failedBuys => InBuy(handlers') = InBuy(handlers) - 1
  /\ (InBuy(handlers') < InBuy(handlers) /\ stats'.successfulBuys = stats.successfulBuys)
       => /\ stats'.failedBuys = stats.failedBuys + 1
          /\ snNotified'.called = [j \in DOMAIN errorCallbacks |-> j]
          /\ ~snNotified'.escaped

\* C24: an exception in a bot's trade cycle stays inside the bot.  A buy attempt
\* of the SniperBot that ends without a success adds exactly one to failedBuys
\* and calls every registered error callback, whether or not an earlier one
\* threw, and no exception leaves executeBuy; a call of the BundlerBot that
\* threw has a result of its operation with success = false and an error
\* message.
C24_ExceptionsStayInside ==
  [](C24_BundlerRecords /\ ~snNotified.escaped) /\ [][C24_SniperRecords]_vars

\* A buy attempt failed with two error callbacks registered, the first of which
\* throws: both were called.
C24_Witness ==
  /\ stats.failedBuys = 1
  /\ errorCallbacks = <<"throws", "returns">>
  /\ snNotified.called = <<1, 2>>

\* An estimateGas call has ended.
GasCallEnded == libCall.fn = "estimateGas" /\ libResult # NoResult

\* The request was made for the call estimateGas was given: the router, the
\* named router function with the parameters, the native value only for Buy.
GasRequestIsForTheCall ==
  LET p == libCall.params
      request == libAwait.request
  IN /\ request.to = libCall.router
     /\ request.data.functionName =
          (CASE p.type = "Buy" -> "buy" [] p.type = "Sell" -> "sell"
             [] p.type = "SellPermit" -> "sellPermit")
     /\ \A f \in DOMAIN request.data.args : request.data.args[f] = p[f]
     /\ request.value = IF p.type = "Buy" THEN Given(p.amountIn) ELSE Undefined

GasEstimateReturned ==
  "gas" \in DOMAIN libAwait.answer =>
    libResult = [outcome |-> "returned", value |-> libAwait.answer.gas]

C26_PermitNonceUsedOnce ==
  /\ (libCall.fn = "generatePermitSignature" /\ libResult.outcome = "returned") =>
       /\ libResult.value.signed.nonce = libAwait.nonce
       /\ libResult.value.nonce = libAwait.nonce
       /\ libResult.value.signed.token = libCall.token
       /\ libResult.value.signed.spender = libCall.spender
  /\ \A i \in DOMAIN permitTxs :
       permitTxs[i].success =>
         /\ permitTxs[i].nonceAfter = permitTxs[i].signed.nonce + 1
         /\ \A j \in DOMAIN permitTxs :
              (/\ j > i
               /\ permitTxs[j].signed.token = permitTxs[i].signed.token
               /\ permitTxs[j].signed.nonce = permitTxs[i].signed.nonce)
              => ~permitTxs[j].success

\* A sellPermit succeeded, and the same signature and another one over the same
\* nonce were submitted after it.
C26_Witness ==
  /\ Len(permitTxs) = 3
  /\ permitTxs[1].success
  /\ permitTxs[2].signed = permitTxs[1].signed
  /\ permitTxs[3].signed # permitTxs[1].signed
  /\ permitTxs[3].signed.token = permitTxs[1].signed.token
  /\ permitTxs[3].signed.nonce = permitTxs[1].signed.nonce
  /\ libResult.outcome = "returned"

\* The places in the token list that do not hold the wrapped-native address.
RECURSIVE LookedUp(_, _)
LookedUp(tokens, i) ==
  IF i > Len(tokens) THEN <<>>
  ELSE IF ToLower(tokens[i]) = "0xc0de" THEN LookedUp(tokens, i + 1)
  ELSE <<i>> \o LookedUp(tokens, i + 1)

\* The non-zero pools among the answers, in order.
RECURSIVE PoolsFound(_)
PoolsFound(lookups) ==
  IF lookups = <<>> THEN <<>>
  ELSE (IF Head(lookups).answer \in {"rejected", ZeroAddress} THEN <<>>
        ELSE <<Head(lookups).answer>>) \o PoolsFound(Tail(lookups))

\* C27: a pool discovery that has ended has returned; it looked up, in input
\* order, exactly the tokens that are not the wrapped-native address whatever
\* their case, each with the pair in ascending address order, also after a
\* lookup failed; and it returned, in that order, the answers that were neither
\* a failure nor the zero address.
C27_DiscoveryReturnsPoolsFound ==
  (libCall.fn = "findPoolsForTokens" /\ libResult # NoResult) =>
    LET tokens == libCall.tokenAddresses
        lookups == libAwait.lookups
        wanted == LookedUp(tokens, 1)
    IN /\ libResult.outcome = "returned"
       /\ Len(lookups) = Len(wanted)
       /\ \A k \in DOMAIN lookups :
            /\ lookups[k].i = wanted[k]
            /\ lookups[k].args[3] = NADS_FEE_TIER
            /\ {lookups[k].args[1], lookups[k].args[2]} = {tokens[wanted[k]], WMON}
            /\ AddressRank(ToLower(lookups[k].args[1]))
                 < AddressRank(ToLower(lookups[k].args[2]))
       /\ libResult.value = PoolsFound(lookups)

\* A discovery over a token below the wrapped-native address, the
\* wrapped-native address in upper case and a token above it: the first lookup
\* failed, the last one found a pool.
C27_Witness ==
  /\ libCall.fn = "findPoolsForTokens"
  /\ libCall.tokenAddresses = <<TokA, "0xC0DE", "0xDEF2">>
  /\ libResult = [outcome |-> "returned", value |-> <<Pool2>>]
  /\ Len(libAwait.lookups) = 2
  /\ libAwait.lookups[1].answer = "rejected"

\* The estimateGas call of the operation that issued call k.
GasCallOf(k) == CallsOf(bCalls[k].i, "estimateGas")

Occurrences(s, e) == Cardinality({i \in DOMAIN s : s[i] = e})

\* a is not after b under (blockNumber, transactionIndex, logIndex).
NotAfter(a, b) ==
  \/ a.blockNumber < b.blockNumber
  \/ /\ a.blockNumber = b.blockNumber
     /\ \/ a.transactionIndex < b.transactionIndex
        \/ /\ a.transactionIndex = b.transactionIndex
           /\ a.logIndex <= b.logIndex

\* C29: what sortEventsChronologically returns is a permutation of the array it
\* was given, non-decreasing under (blockNumber, transactionIndex, logIndex);
\* sorting its output again gives the same sequence; and the curve copy and
\* the DEX copy return the same sequence for the same array.
C29_SortIsAnIdempotentOrdering ==
  (libCall.fn = "sortEventsChronologically" /\ libResult # NoResult) =>
    LET given == libResult.given
        value == libResult.value
    IN /\ Len(value) = Len(given)
       /\ \A e \in Range(given) \cup Range(value) :
            Occurrences(value, e) = Occurrences(given, e)
       /\ \A i \in DOMAIN value : \A j \in DOMAIN value :
            i < j => NotAfter(value[i], value[j])
       /\ libCall.events = value
       /\ libCall.sorts = 2 => value = given
       /\ Sorted("dex", value) = value
       /\ Sorted("curve", value) = value
       /\ Sorted("dex", given) = Sorted("curve", given)

\* An array of three events in descending order, two of them at the same
\* place in the chain with the Sell given first, was sorted: the two kept
\* their order.
C29_Witness ==
  /\ libCall.fn = "sortEventsChronologically"
  /\ libResult # NoResult
  /\ libResult.given =
       <<[blockNumber |-> 2, transactionIndex |-> 0, logIndex |-> 1, type |-> "Sell"],
         [blockNumber |-> 1, transactionIndex |-> 1, logIndex |-> 0, type |-> "Sell"],
         [blockNumber |-> 1, transactionIndex |-> 1, logIndex |-> 0, type |-> "Buy"]>>
  /\ libResult.value =
       <<[blockNumber |-> 1, transactionIndex |-> 1, logIndex |-> 0, type |-> "Sell"],
         [blockNumber |-> 1, transactionIndex |-> 1, logIndex |-> 0, type |-> "Buy"],
         [blockNumber |-> 2, transactionIndex |-> 0, logIndex |-> 1, type |-> "Sell"]>>

\* floor(p * 100) for a percent p held in thousandths.
WholeBasisPoints(p) == (p * 100) \div PercentUnit

\* C30: for an amount >= 0 and a slippage percent p in [0, 100),
\* calculateMinAmountOut returns amount * (10000 - floor(p * 100)) / 10000,
\* which is at most amount, and calculateMaxAmountIn returns
\* amount * (10000 + floor(p * 100)) / 10000, which is at least amount, the
\* division truncating; both throw for p < 0 and for p >= 100.
C30_BasisPointFormula ==
  (libCall.fn \in {"calculateMinAmountOut", "calculateMaxAmountIn"}
   /\ libResult # NoResult) =>
    LET amount == libCall.amount
        p == libCall.slippagePercent
    IN IF p < 0 \/ p >= 100 * PercentUnit THEN libResult.outcome = "threw"
       ELSE /\ libResult.outcome = "returned"
            /\ libCall.fn = "calculateMinAmountOut" =>
                 /\ libResult.value = (amount * (10000 - WholeBasisPoints(p))) \div 10000
                 /\ libResult.value <= amount
            /\ libCall.fn = "calculateMaxAmountIn" =>
                 /\ libResult.value = (amount * (10000 + WholeBasisPoints(p))) \div 10000
                 /\ libResult.value >= amount


(***************************************************************************)
(* Claims about the Streams: subscription errors.                          *)
(***************************************************************************)
\* The step just taken was a subscription's onError.
ErrorReported == last'.error /\ last'.running

\* The step created a subscription.
Subscribed == SubIds(subs') \ SubIds(subs) # {}

\* The step was a start() that went through, or an addPoolAddresses on a
\* Running DEX stream that added a pool.
StartedOrAddedPools ==
  \/ ~isRunning /\ isRunning'
  \/ strKind = "dex" /\ isRunning /\ Len(poolAddresses') > Len(poolAddresses)

StatNames == {"totalEvents", "totalBuys", "successfulBuys", "failedBuys", "skippedBuys"}

\* C32: the SniperBot's counters never decrease, stop() included; always
\* successfulBuys + failedBuys <= totalBuys and totalBuys + skippedBuys <=
\* totalEvents, and successfulBuys + failedBuys = totalBuys when no buy attempt
\* is in flight (each attempt in flight accounts for exactly one of the
\* difference), also when attempts overlap.
C32_CountersOnlyGrowAndAddUp ==
  /\ [][\A n \in StatNames : stats'[n] >= stats[n]]_vars
  /\ [](/\ stats.successfulBuys + stats.failedBuys + InBuy(handlers) = stats.totalBuys
        /\ stats.totalBuys + stats.skippedBuys <= stats.totalEvents)

\* The bot was stopped after two attempts that overlapped, one ended well and
\* one failed, and an event was skipped.
C32_Witness ==
  /\ ~snRunning
  /\ snStarts > 0
  /\ handlers = <<>>
  /\ stats.totalBuys = 2
  /\ stats.successfulBuys = 1
  /\ stats.failedBuys = 1
  /\ Len(snBuys) = 2


(***************************************************************************)
(* Claims about the Streams: the order of delivery.                        *)
(***************************************************************************)
\* C33: each listener receives events in the order in which the subscription
\* delivered their logs, within a batch and across batches, also when a later
\* batch arrives while an earlier one awaits getBlock: no listener is called
\* with an event after it was called with an event of a later batch.
C33_ListenersGetEventsInDeliveryOrder ==
  last.dispatched => Range(last.receivers) \cap last.behind = {}


(***************************************************************************)
(* Claims about the SniperBot: start and stop.                             *)
(***************************************************************************)
\* C34: after any sequence of start() and stop() calls, a second start() before
\* the first has returned included, the bot has at most one listener on its
\* stream, and each Create event delivered is counted once in totalEvents.
C34_OneListenerOneCountPerEvent ==
  /\ [](snListeners <= 1)
  /\ [][Len(snEvents') > Len(snEvents) => stats'.totalEvents = stats.totalEvents + 1]_vars


\* stop() has returned and start() has not been called since.
SniperStopped == ~snRunning /\ snStarting = 0 /\ snStarts > 0

\* C35: after SniperBot.stop() has returned no new buy attempt begins
\* (totalBuys does not grow), also for a Create event whose custom filter was
\* still pending when stop() was called.
C35_NoBuyBeginsAfterStop ==
  [][SniperStopped => stats'.totalBuys = stats.totalBuys]_vars


\* The step resumed a handleCreateEvent that was waiting for its custom filter,
\* which went on to executeBuy.
PendingFilterPassed ==
  \E k \in DOMAIN handlers :
    /\ handlers[k].pc = "filter"
    /\ k \in DOMAIN handlers'
    /\ handlers'[k].pc = "getBalance"

\* C35 as amended: once stop() has stopped the bot, no Create event is handled
\* any more (totalEvents does not grow), and a buy attempt begins only for an
\* event that was being handled when stop() was called, its custom filter then
\* pending.
C35_OnlyPendingEventsBuyAfterStop ==
  [][SniperStopped =>
       /\ stats'.totalEvents = stats.totalEvents
       /\ stats'.totalBuys > stats.totalBuys =>
            stats'.totalBuys = stats.totalBuys + 1 /\ PendingFilterPassed]_vars

\* The bot was stopped while a handleCreateEvent waits for its custom filter.
C35_Witness ==
  /\ SniperStopped
  /\ \E k \in DOMAIN handlers : handlers[k].pc = "filter"


(***************************************************************************)
(* Claims about the curve Stream and the curve Indexer together.           *)
(***************************************************************************)
\* C37: given the same event-type list and the same token list, the curve
\* Stream and the curve Indexer accept the same decoded events, also when a
\* list is empty or was set after start(): the event the Stream has just
\* decoded passed its filters exactly if Indexer.processLogs, given the
\* Stream's two lists, keeps it.
C37_StreamAcceptsWhatIndexerKeeps ==
  (strKind = "curve" /\ last.parsed) =>
    (last.dispatched <=>
       CurveKeeps(parseBondingCurveEvent(last.log, 0)[1], Filter(last.types),
                  tokenFilter))


(***************************************************************************)
(* Claims about the Streams: isStreaming().                                *)
(***************************************************************************)
\* The stream holds the release function of a live subscription for address.
HoldsSubscription(address) ==
  \E sub \in subs :
    /\ sub.address = address
    /\ IF strKind = "curve" THEN watchFn = sub.id ELSE sub.id \in Range(watchFunctions)

\* C36: whenever isStreaming() is true the stream holds a live subscription
\* for its address (curve) or for every monitored pool (DEX).
C36_StreamingMeansSubscribed ==
  isRunning =>
    IF strKind = "curve" THEN HoldsSubscription(CURVE)
    ELSE \A pool \in Range(poolAddresses) : HoldsSubscription(pool)


(***************************************************************************)
(* Claims about the Streams: listeners that throw.                         *)
(***************************************************************************)
\* C38: a listener that throws while handling an event does not keep the
\* other listeners registered on the stream from receiving that event: when a
\* callback threw during a dispatch, every listener registered when the
\* dispatch began was called.
C38_ThrowingListenerStopsNoOther ==
  (last.dispatched /\ last.threw) => last.before \subseteq Range(last.receivers)


(***************************************************************************)
(* Claims about the BundlerBot: the slippage of an operation.              *)
(***************************************************************************)
\* The slippage the operation that issued call k asks for: its own when it
\* gives one, else the configured default.
SlippageAskedFor(k) ==
  LET operation == bOps[bCalls[k].i]
  IN IF operation.slippagePercent.given THEN operation.slippagePercent.value
     ELSE OrElse(Given(bConfig.defaultSlippagePercent), DefaultSlippagePercent)

\* C39: an operation's own slippagePercent, when given, is the one its
\* amountOutMin is computed with, 0 included (amountOutMin is then the quote
\* amount); the default is used only for an operation that gives none.
C39_OwnSlippageIsUsed ==
  \A k \in DOMAIN bCalls :
    bCalls[k].name \in TradeMethods =>
      /\ bCalls[k].slippage = SlippageAskedFor(k)
      /\ bCalls[k].amountOutMin =
           calculateMinAmountOut(bCalls[k].quoteAmount, SlippageAskedFor(k)).value

====
